---- MODULE Spec2Model ----
(***************************************************************************)
(* Model of the backup engine of create-dropbox-backup-folder:             *)
(* Engine.Run, Engine.downloadFiles and its download workers,              *)
(* Engine.downloadFile, Engine.shouldSkipFile, Engine.deleteOrphanedFiles  *)
(* and the parts of the Dropbox client that Run drives (IsTokenValid,      *)
(* RefreshToken, ListAll, Download).                                       *)
(*                                                                         *)
(* Time stamps are small naturals; 0 is Go's zero time.Time.  Paths are    *)
(* sequences of one-character strings.                                     *)
(***************************************************************************)
EXTENDS Integers, Sequences, FiniteSets, TLC

\* ---------------------------------------------------------------- bounds
MaxFiles == 2      \* entries in the remote account
MaxPool  == 2      \* largest configured MaxConcurrency
MaxTime  == 2      \* largest remote modification time
MaxSize  == 1      \* largest file size in bytes
MaxRuns  == 2      \* program invocations against the same backup directory

ClockMin == 10     \* time.Now(), in minutes, when the token is checked

\* ------------------------------------------------------ program constants
TokenBuffer == 5   \* IsTokenValid: 5-minute expiry buffer

VARIABLES
    config,     \* *config.Config: MaxConcurrency, Delete, Exclude
    token,      \* Client.token: AccessToken, Expiry
    remote,     \* the account as ListAll flattens it: 1..n -> FileInfo
    fs,         \* the backup directory: local path -> NoFile or [size, mtime]
    now,        \* time stamp the file system gives to a write in this run
    ctxDone,    \* the run context has been cancelled
    pc,         \* position of Run
    runsLeft,   \* invocations of the program still to come after this one
    files,      \* dropboxFiles / filteredFiles held by Run
    stats,      \* *Stats of the run
    sem,        \* len(e.semaphore)
    errChan,    \* buffered values of errChan
    chanState,  \* errChan: "none" before it is made, then "open", "closed"
    walk,       \* filepath.Walk: the local paths still to visit
    wk,         \* download workers: index of files -> goroutine state
    runErr,     \* what Run returned: "none" while running, "nil" or an error
    calls,      \* instrumentation: calls made to the client in this run
    prev,       \* instrumentation: outcome of the previous invocation
    ignoreFile, \* the lines of the file an @ rule of config.Exclude names
    printed,    \* logStats, size summary: the count formatted and its rendering
    env,        \* what config.Load reads: Options, environment, directory, clock
    ia,         \* *InteractiveAuth, the flow it is in and what it has exchanged
    ls          \* Client.ListAll in progress: the account, the calls of listRecursive

vars == <<config, token, remote, fs, now, ctxDone, pc, runsLeft, files, stats,
          sem, errChan, chanState, walk, wk, runErr, calls, prev, ignoreFile,
          printed, env, ia, ls>>

\* ------------------------------------------------------------------ paths
Digits == <<"0", "1", "2", "3", "4", "5", "6", "7", "8", "9">>

\* the lower-cased remote path of the i-th file of the account
PathOf(i) == <<"/", "f", Digits[i + 1]>>

\* convertToFileInfo: every metadata type other than file and folder
UnknownPath == <<"/", "u", "n", "k", "n", "o", "w", "n">>

OrphanLocal == <<"o">>

\* a local directory no remote entry maps to, and a file inside it
OrphanDir == <<"d">>
NestedOrphan == <<"d", "/", "o">>

\* strings.TrimPrefix(file.Path, "/") joined under BackupDir
LocalPath(p) == IF Len(p) > 0 /\ Head(p) = "/" THEN Tail(p) ELSE p

NoFile == [exists |-> FALSE, isDir |-> FALSE, size |-> 0, mtime |-> 0]

LocalFile(s, t) == [exists |-> TRUE, isDir |-> FALSE, size |-> s, mtime |-> t]

\* a local directory, as os.FileInfo reports it
LocalDir == [exists |-> TRUE, isDir |-> TRUE, size |-> 0, mtime |-> 1]

\* dropbox.FileInfo
FileInfo(p, folder, s, t) == [Path |-> p, IsFolder |-> folder, Size |-> s, ModTime |-> t]

\* convertToFileInfo, by metadata type
FileEntry(i, s, t) == FileInfo(PathOf(i), FALSE, s, t)
FolderEntry(i)     == FileInfo(PathOf(i), TRUE, 0, 0)
UnknownEntry       == FileInfo(UnknownPath, FALSE, 0, 0)

\* ------------------------------------------------------------ the client
\* the token an oauth2 token source hands out: one that outlives the buffer
FreshToken == [AccessToken |-> "tok", Expiry |-> ClockMin + TokenBuffer + 1]

\* a Client whose token is nil
NilToken == [nil |-> TRUE]

\* a validity test without the buffer
IsTokenValidNoBuffer(tk) ==
    IF tk = NilToken THEN FALSE
    ELSE IF tk.Expiry # 0 /\ ClockMin > tk.Expiry
    THEN FALSE
    ELSE tk.AccessToken # ""

\* Client.IsTokenValid, with time.Now() = ClockMin
IsTokenValid(tk) ==
    IF tk = NilToken THEN FALSE
    ELSE IF tk.Expiry # 0 /\ ClockMin + TokenBuffer > tk.Expiry
    THEN FALSE
    ELSE tk.AccessToken # ""

\* -------------------------------------------------------------- the plan
\* "not before" in place of After: an equal time skips whatever the size
shouldSkipFileNotBefore(st, remoteFile) ==
    IF ~st.exists THEN FALSE
    ELSE remoteFile.ModTime # 0 /\ st.mtime >= remoteFile.ModTime

\* the IsZero guard of the After branch left out
shouldSkipFileNoZeroGuard(st, remoteFile) ==
    IF ~st.exists THEN FALSE
    ELSE IF st.mtime > remoteFile.ModTime THEN TRUE
    ELSE IF st.size = remoteFile.Size /\ remoteFile.ModTime # 0
            /\ st.mtime = remoteFile.ModTime THEN TRUE
    ELSE FALSE

\* the "same size and modification time" branch left out
shouldSkipFileOnlyNewer(st, remoteFile) ==
    IF ~st.exists THEN FALSE
    ELSE remoteFile.ModTime # 0 /\ st.mtime > remoteFile.ModTime

\* Engine.shouldSkipFile: st is what os.Stat(localPath) found
shouldSkipFile(st, remoteFile) ==
    IF ~st.exists THEN FALSE
    ELSE IF remoteFile.ModTime # 0 /\ st.mtime > remoteFile.ModTime THEN TRUE
    ELSE IF st.size = remoteFile.Size /\ remoteFile.ModTime # 0
            /\ st.mtime = remoteFile.ModTime THEN TRUE
    ELSE FALSE

\* strings.HasPrefix, strings.HasSuffix, strings.Contains
HasPrefix(s, pre) == Len(pre) <= Len(s) /\ SubSeq(s, 1, Len(pre)) = pre
HasSuffix(s, suf) == Len(suf) <= Len(s) /\ SubSeq(s, Len(s) - Len(suf) + 1, Len(s)) = suf
Contains(s, sub) ==
    \E k \in 1..(Len(s) - Len(sub) + 1) : SubSeq(s, k, k + Len(sub) - 1) = sub

\* a '*' that also matches the separator
RECURSIVE MatchStarCrosses(_, _)
MatchStarCrosses(pattern, name) ==
    IF Len(pattern) = 0 THEN Len(name) = 0
    ELSE IF Head(pattern) = "*"
         THEN \/ MatchStarCrosses(Tail(pattern), name)
              \/ Len(name) > 0 /\ MatchStarCrosses(pattern, Tail(name))
    ELSE IF Head(pattern) = "?"
         THEN Len(name) > 0 /\ Head(name) # "/" /\ MatchStarCrosses(Tail(pattern), Tail(name))
    ELSE Len(name) > 0 /\ Head(name) = Head(pattern)
            /\ MatchStarCrosses(Tail(pattern), Tail(name))

\* filepath.Match for patterns of literals, '*' and '?': neither matches '/'
RECURSIVE Match(_, _)
Match(pattern, name) ==
    IF Len(pattern) = 0 THEN Len(name) = 0
    ELSE IF Head(pattern) = "*"
         THEN \/ Match(Tail(pattern), name)
              \/ Len(name) > 0 /\ Head(name) # "/" /\ Match(pattern, Tail(name))
    ELSE IF Head(pattern) = "?"
         THEN Len(name) > 0 /\ Head(name) # "/" /\ Match(Tail(pattern), Tail(name))
    ELSE Len(name) > 0 /\ Head(name) = Head(pattern) /\ Match(Tail(pattern), Tail(name))

RECURSIVE StripSlashes(_)
StripSlashes(p) ==
    IF Len(p) > 0 /\ p[Len(p)] = "/" THEN StripSlashes(SubSeq(p, 1, Len(p) - 1)) ELSE p

RECURSIVE LastElement(_)
LastElement(p) ==
    IF Len(p) = 0 \/ p[Len(p)] = "/" THEN <<>>
    ELSE Append(LastElement(SubSeq(p, 1, Len(p) - 1)), p[Len(p)])

\* filepath.Base
Base(p) ==
    IF Len(p) = 0 THEN <<".">>
    ELSE IF Len(StripSlashes(p)) = 0 THEN <<"/">>
    ELSE LastElement(StripSlashes(p))

\* Engine.isInExcludeFile: "a simplified implementation"
isInExcludeFile(path, excludeFile) == FALSE

\* one turn of shouldExclude's loop: "match" returns true, "next" goes on
RuleVerdict(pattern, path) ==
    IF HasPrefix(pattern, <<"@">>)
    THEN IF isInExcludeFile(path, Tail(pattern)) THEN "match" ELSE "next"
    ELSE IF HasSuffix(pattern, <<"/">>)
    THEN IF HasPrefix(path, pattern) \/ Contains(path, <<"/">> \o pattern)
         THEN "match" ELSE "next"
    ELSE IF Match(pattern, Base(path)) THEN "match"
    ELSE IF Match(pattern, path) THEN "match"
    ELSE "next"

\* a loop that returns on the first pattern, matched or not
shouldExcludeFromFirstOnly(rules, k, path) ==
    k <= Len(rules) /\ RuleVerdict(rules[k], path) = "match"

\* Engine.shouldExclude over the patterns from the k-th on
RECURSIVE shouldExcludeFrom(_, _, _)
shouldExcludeFrom(rules, k, path) ==
    IF k > Len(rules) THEN FALSE
    ELSE IF RuleVerdict(rules[k], path) = "match" THEN TRUE
    ELSE shouldExcludeFrom(rules, k + 1, path)

\* Engine.shouldExclude
shouldExclude(rules, path) == shouldExcludeFrom(rules, 1, path)

\* a filter that keeps every entry
filterFilesKeepAll(rules, fl) == fl

\* Engine.filterFiles
filterFiles(rules, fl) ==
    IF Len(rules) = 0 THEN fl
    ELSE LET keep(f) == ~shouldExclude(rules, f.Path) IN SelectSeq(fl, keep)

\* -------------------------------------------------------- the statistics
\* formatBytes: const unit
unit == 1024

\* a uint64 is held as its base-unit digits, lowest first; the highest of
\* the Uint64Limbs digits has 4 bits
Uint64Limbs == 7
TopLimbRange == 16

RECURSIVE LimbsOf(_, _)
LimbsOf(n, j) == IF j = 0 THEN <<>> ELSE <<n % unit>> \o LimbsOf(n \div unit, j - 1)

\* uint64(n) for a small natural n
Uint64(n) == LimbsOf(n, Uint64Limbs)

\* b + c on uint64, c a small natural: a carry out of the top digit is lost
RECURSIVE AddAt(_, _, _)
AddAt(b, j, c) ==
    IF c = 0 THEN b
    ELSE IF j > Len(b) THEN b
    ELSE IF j = Len(b)
    THEN [b EXCEPT ![j] = (b[j] + c) % TopLimbRange]
    ELSE AddAt([b EXCEPT ![j] = (b[j] + c) % unit], j + 1, (b[j] + c) \div unit)

Add64(b, c) == AddAt(b, 1, c)

\* n < unit
BelowUnit(n) == \A j \in 2..Len(n) : n[j] = 0

\* n / unit
DivUnit(n) == Tail(n) \o <<0>>

\* the loop with "n > unit" for its condition
RECURSIVE UnitLoopStrict(_)
UnitLoopStrict(n) ==
    IF BelowUnit(n) \/ n = Uint64(unit) THEN 0
    ELSE 1 + UnitLoopStrict(DivUnit(n))

\* for n := bytes / unit; n >= unit; n /= unit { div *= unit; exp++ }: the
\* value of exp after the loop, entered with n; div is unit^(exp+1), which
\* stays below 2^64
RECURSIVE UnitLoop(_)
UnitLoop(n) == IF BelowUnit(n) THEN 0 ELSE 1 + UnitLoop(DivUnit(n))

\* fmt "%d"
RECURSIVE Decimal(_)
Decimal(n) == IF n < 10 THEN <<Digits[n + 1]>>
              ELSE Decimal(n \div 10) \o <<Digits[(n % 10) + 1]>>

\* 10 * (the digits 1..j of b read as a fraction): its integer part q, the
\* numerator rem of what is left over unit, and whether the digits below
\* contribute nothing
RECURSIVE TenFrac(_, _)
TenFrac(b, j) ==
    IF j = 0 THEN [q |-> 0, rem |-> 0, lowerZero |-> TRUE]
    ELSE LET g == TenFrac(b, j - 1)
             v == 10 * b[j] + g.q
         IN [q |-> v \div unit, rem |-> v % unit,
             lowerZero |-> g.rem = 0 /\ g.lowerZero]

\* float64(bytes) / float64(unit^k) in tenths, as "%.1f" rounds it: to the
\* nearest tenth, an exact half to the even one. The quotient is exact when
\* bytes has at most 53 significant bits
Tenths(b, k) ==
    LET g    == TenFrac(b, k)
        whole == b[k + 1] + (IF k + 2 <= Len(b) THEN unit * b[k + 2] ELSE 0)
        base == 10 * whole + g.q
        half == unit \div 2
    IN IF g.rem > half \/ (g.rem = half /\ ~g.lowerZero) THEN base + 1
       ELSE IF g.rem = half /\ base % 2 = 1 THEN base + 1
       ELSE base

\* "KMGTPE"[exp]: an index past the string panics
UnitLetters == <<"K", "M", "G", "T", "P", "E">>
UnitLetter(exp) == IF exp + 1 <= Len(UnitLetters) THEN UnitLetters[exp + 1] ELSE "panic"

\* formatBytes
formatBytes(bytes) ==
    IF BelowUnit(bytes) THEN Decimal(bytes[1]) \o <<" ", "B">>
    ELSE LET exp == UnitLoop(DivUnit(bytes))
             t   == Tenths(bytes, exp + 1)
         IN Decimal(t \div 10) \o <<".", Digits[(t % 10) + 1], " ", UnitLetter(exp), "B">>

IdleWorker == [pc |-> "acquire", skip |-> "none", stat |-> NoFile, tmp |-> 0,
               written |-> 0, err |-> "none", downloads |-> 0, late |-> FALSE,
               chtimes |-> "none", acquired |-> FALSE]

NoStats == [TotalFiles |-> 0, TotalFolders |-> 0, DownloadedFiles |-> 0,
            SkippedFiles |-> 0, DeletedFiles |-> 0, TotalBytes |-> Uint64(0)]

\* what Run returned: the stage that failed and the error it wraps
Running      == [stage |-> "running", cause |-> ""]
Nil          == [stage |-> "nil", cause |-> ""]
Failed(s, c) == [stage |-> s, cause |-> c]

NoCalls == [ListAll |-> 0, authFailed |-> FALSE,
            listFailed |-> FALSE, refreshAfterFail |-> 0,
            cancelledAtList |-> FALSE, deleteStarted |-> FALSE, removed |-> {},
            cancelled |-> FALSE, exited |-> FALSE]

LocalPaths == {LocalPath(PathOf(i)) : i \in 1..MaxFiles}
                  \cup {LocalPath(UnknownPath), OrphanLocal, OrphanDir, NestedOrphan}

\* ----------------------------------------------------------- config.Load
\* Load: the defaults of the runtime settings
DefaultMaxConcurrency == 5
RetryAttempts == 3

\* filepath.IsAbs
IsAbs(p) == Len(p) > 0 /\ Head(p) = "/"

\* the elements of a path: what its separators delimit
RECURSIVE Elements(_, _)
Elements(p, cur) ==
    IF Len(p) = 0 THEN <<cur>>
    ELSE IF Head(p) = "/" THEN <<cur>> \o Elements(Tail(p), <<>>)
    ELSE Elements(Tail(p), Append(cur, Head(p)))

\* filepath.Clean of a rooted path, on its elements: empty elements and "."
\* go, ".." takes the element before it with it and stays at the root
RECURSIVE CleanElements(_, _)
CleanElements(els, out) ==
    IF Len(els) = 0 THEN out
    ELSE IF Head(els) \in {<<>>, <<".">>} THEN CleanElements(Tail(els), out)
    ELSE IF Head(els) = <<".", ".">>
         THEN CleanElements(Tail(els), IF Len(out) = 0 THEN out
                                       ELSE SubSeq(out, 1, Len(out) - 1))
    ELSE CleanElements(Tail(els), Append(out, Head(els)))

RECURSIVE JoinElements(_)
JoinElements(els) ==
    IF Len(els) = 0 THEN <<>>
    ELSE <<"/">> \o Head(els) \o JoinElements(Tail(els))

CleanRooted(p) ==
    LET els == CleanElements(Elements(p, <<>>), <<>>)
    IN IF Len(els) = 0 THEN <<"/">> ELSE JoinElements(els)

\* filepath.Abs: Clean of an absolute path, else Join(Getwd(), path)
filepathAbs(cwd, p) == IF IsAbs(p) THEN CleanRooted(p) ELSE CleanRooted(cwd \o <<"/">> \o p)

\* a number in at least w decimal digits
RECURSIVE Pad(_, _)
Pad(n, w) == IF w <= 1 THEN Decimal(n)
             ELSE IF Len(Decimal(n)) >= w THEN Decimal(n)
             ELSE <<"0">> \o Pad(n, w - 1)

Dash == <<"-">>

\* time.Now().Format("2006-01-02-15-04-05")
Timestamp(t) ==
    Pad(t.year, 4) \o Dash \o Pad(t.month, 2) \o Dash \o Pad(t.day, 2) \o Dash
        \o Pad(t.hour, 2) \o Dash \o Pad(t.minute, 2) \o Dash \o Pad(t.second, 2)

\* "./dropbox_backup_"
DefaultPrefix == <<".", "/", "d", "r", "o", "p", "b", "o", "x", "_",
                   "b", "a", "c", "k", "u", "p", "_">>

\* the environment variable before the flag
ChosenDirEnvFirst(e) ==
    IF e.DROPBOX_BACKUP_FOLDER # <<>> THEN e.DROPBOX_BACKUP_FOLDER
    ELSE IF e.opts.BackupDir # <<>> THEN e.opts.BackupDir
    ELSE DefaultPrefix \o Timestamp(e.clock)

\* setBackupDir, "Priority: command-line flag > environment variable > default"
ChosenDir(e) ==
    IF e.opts.BackupDir # <<>> THEN e.opts.BackupDir
    ELSE IF e.DROPBOX_BACKUP_FOLDER # <<>> THEN e.DROPBOX_BACKUP_FOLDER
    ELSE DefaultPrefix \o Timestamp(e.clock)

\* setBackupDir: c.BackupDir after "Convert to absolute path"
setBackupDir(e) == filepathAbs(e.cwd, ChosenDir(e))

\* the Config that Load builds from the Options and the environment
LoadedConfig(e) ==
    [MaxConcurrency |-> DefaultMaxConcurrency, RetryAttempts |-> RetryAttempts,
     Delete |-> e.opts.Delete, Exclude |-> e.opts.Exclude,
     ShowSize |-> e.opts.ShowSize, BackupDir |-> setBackupDir(e)]

\* the Config before Load has run
NoConfig == [MaxConcurrency |-> 0, RetryAttempts |-> 0, Delete |-> FALSE,
             Exclude |-> <<>>, ShowSize |-> FALSE, BackupDir |-> <<>>]

NoClock == [year |-> 1, month |-> 1, day |-> 1, hour |-> 0, minute |-> 0, second |-> 0]

NoEnv == [opts |-> [BackupDir |-> <<>>, Delete |-> FALSE, Exclude |-> <<>>,
                    ShowSize |-> FALSE],
          DROPBOX_BACKUP_FOLDER |-> <<>>, credentials |-> TRUE,
          cwd |-> <<"/">>, clock |-> NoClock]

\* ------------------------------------------------------- InteractiveAuth
\* NewInteractiveAuth: no state stored yet, an empty resultChan of capacity 1;
\* generated is the state StartOAuthFlow has made for this flow, exchanged
\* the state parameters of the callbacks whose code went to ExchangeCode
NoAuth == [pc |-> "new", listening |-> FALSE, state |-> "", generated |-> "none",
           resultChan |-> <<>>, exchanged |-> {}, result |-> "none"]

\* ---------------------------------------------------------- Client.ListAll
\* no ListAll in progress
NoListing == [account |-> <<>>, stack |-> <<>>, allFiles |-> <<>>, err |-> FALSE]

\* ------------------------------------------------------------------ Init
\* What every invocation starts from: Engine.New and the first lines of Run
FreshRun ==
    /\ ctxDone = FALSE
    /\ pc = "checkToken"
    /\ files = <<>>
    /\ stats = NoStats
    /\ sem = 0
    /\ errChan = <<>>
    /\ chanState = "none"
    /\ walk = <<>>
    /\ wk = <<>>
    /\ runErr = Running
    /\ calls = NoCalls
    /\ prev = [ran |-> FALSE, outcome |-> <<>>, err |-> <<>>, fs0 |-> fs]
    /\ printed = <<>>
    /\ env = NoEnv
    /\ ia = NoAuth
    /\ ls = NoListing

\* the entries an account of MaxFiles paths can list
RemoteKinds == {FolderEntry(i) : i \in 1..MaxFiles}
                   \cup {FileEntry(i, MaxSize, MaxTime) : i \in 1..MaxFiles}
                   \cup {UnknownEntry}

\* One invocation on a backup directory holding one stray file and, for each
\* remote path, nothing or an up-to-date copy: an account of MaxFiles entries
\* of every metadata type, every pool size, both token states.
InitPool ==
    /\ config \in [MaxConcurrency : 1..MaxPool, Delete : BOOLEAN, Exclude : {<<>>},
                  ShowSize : {TRUE}]
    /\ ignoreFile = <<>>
    /\ token \in {FreshToken,
                  [AccessToken |-> "tok", Expiry |-> ClockMin + TokenBuffer - 1]}
    /\ remote \in {r \in [1..MaxFiles -> RemoteKinds] :
                      \A i \in 1..MaxFiles :
                          r[i] \in {FolderEntry(i), FileEntry(i, MaxSize, MaxTime), UnknownEntry}}
    /\ fs \in {f \in [LocalPaths -> {NoFile, LocalFile(0, 1), LocalFile(MaxSize, MaxTime)}] :
                  /\ f[OrphanLocal] = LocalFile(0, 1)
                  /\ f[LocalPath(UnknownPath)] = NoFile
                  /\ f[OrphanDir] = NoFile
                  /\ f[NestedOrphan] = NoFile
                  /\ \A i \in 1..MaxFiles :
                        f[LocalPath(PathOf(i))] \in {NoFile, LocalFile(MaxSize, MaxTime)}}
    /\ now = MaxTime + 1
    /\ runsLeft = 0
    /\ FreshRun

\* --exclude '*1'
ExcludeRule == <<"*", "1">>

\* MaxRuns invocations on a backup directory that already holds a copy, in
\* every relation of size and time to the one remote file; one slot; any
\* clock; with and without an exclusion rule.
InitPlan ==
    /\ config \in [MaxConcurrency : {1}, Delete : {FALSE},
                  Exclude : {<<>>, <<ExcludeRule>>}, ShowSize : {TRUE}]
    /\ ignoreFile = <<>>
    /\ token = FreshToken
    /\ remote \in {<<FileEntry(1, s, t)>> : s \in 0..MaxSize, t \in 0..MaxTime}
    /\ fs \in {[p \in LocalPaths |-> IF p = LocalPath(PathOf(1)) THEN l ELSE NoFile] :
                  l \in {NoFile} \cup {LocalFile(s, t) : s \in 0..MaxSize, t \in 1..(MaxTime + 1)}}
    /\ now \in 1..(MaxTime + 1)
    /\ runsLeft = MaxRuns - 1
    /\ FreshRun

\* One invocation with --delete and a single slot, on a backup directory that
\* also holds a directory no remote entry maps to, empty or with one file in
\* it: an account of MaxFiles entries of every metadata type, with and
\* without an exclusion rule.
InitDelete ==
    /\ config \in [MaxConcurrency : {1}, Delete : {TRUE},
                  Exclude : {<<>>, <<ExcludeRule>>}, ShowSize : {TRUE}]
    /\ ignoreFile = <<>>
    /\ token = FreshToken
    /\ remote \in {r \in [1..MaxFiles -> RemoteKinds] :
                      \A i \in 1..MaxFiles :
                          r[i] \in {FolderEntry(i), FileEntry(i, MaxSize, MaxTime), UnknownEntry}}
    /\ fs \in {f \in [LocalPaths -> {NoFile, LocalDir, LocalFile(0, 1),
                                     LocalFile(MaxSize, MaxTime)}] :
                  /\ f[OrphanLocal] = LocalFile(0, 1)
                  /\ f[LocalPath(UnknownPath)] = NoFile
                  /\ f[OrphanDir] = LocalDir
                  /\ f[NestedOrphan] \in {NoFile, LocalFile(0, 1)}
                  /\ \A i \in 1..MaxFiles :
                        f[LocalPath(PathOf(i))] \in {NoFile, LocalFile(MaxSize, MaxTime)}}
    /\ now = MaxTime + 1
    /\ runsLeft = 0
    /\ FreshRun

Init == InitPool \/ InitPlan \/ InitDelete

\* ------------------------------------------------------------------- Run
\* context cancellation by the caller of Run, at any time while Run runs
Cancel ==
    /\ ~ctxDone
    /\ pc # "done"
    /\ ctxDone' = TRUE
    /\ calls' = [calls EXCEPT !.cancelled = TRUE]
    /\ UNCHANGED <<config, ignoreFile, env, ia, ls, printed, token, remote, fs, now, pc, runsLeft,
                   files, stats, sem, errChan, chanState, walk, wk, runErr, prev>>

\* runBackup, defer cancel(): Run has returned
DeferredCancel ==
    /\ pc = "done"
    /\ ~ctxDone
    /\ ctxDone' = TRUE
    /\ UNCHANGED <<config, ignoreFile, env, ia, ls, printed, token, remote, fs, now, pc, runsLeft,
                   files, stats, sem, errChan, chanState, walk, wk, runErr, calls, prev>>

\* a goroutine that has not returned when the process ends
Killed(w) == IF w.pc = "done" THEN w ELSE [w EXCEPT !.pc = "killed"]

\* main returns, or calls os.Exit(1) on the error of Run: the deferred
\* cancel() of runBackup has run, and the goroutines still alive end with
\* the process
ProcessExit ==
    /\ pc = "done"
    /\ ~calls.exited
    /\ calls' = [calls EXCEPT !.exited = TRUE]
    /\ ctxDone' = TRUE
    /\ wk' = [i \in DOMAIN wk |-> Killed(wk[i])]
    /\ UNCHANGED <<config, ignoreFile, env, ia, ls, printed, token, remote, fs, now, pc, runsLeft,
                   files, stats, sem, errChan, chanState, walk, runErr, prev>>

\* a refresh whose error is ignored
AfterRefreshIgnored(ok) == "list"

\* where Run goes after the RefreshToken of an invalid token
AfterRefresh(ok) == IF ok THEN "list" ELSE "done"

\* Run, "Check and refresh token if needed"
RunCheckToken ==
    /\ pc = "checkToken"
    /\ IF IsTokenValid(token)
       THEN /\ pc' = "list"
            /\ UNCHANGED <<token, runErr, calls>>
       ELSE \E ok \in BOOLEAN :
               /\ calls' = [calls EXCEPT !.authFailed = ~ok]
               /\ token' = IF ok THEN FreshToken ELSE token
               /\ runErr' = IF ok THEN runErr ELSE Failed("refresh token", "refresh")
               /\ pc' = AfterRefresh(ok)
    /\ UNCHANGED <<config, ignoreFile, env, ia, ls, printed, remote, fs, now, ctxDone, runsLeft, files, stats, sem,
                   errChan, chanState, walk, wk, prev>>

\* Client.ListAll: the whole account or an error; the context is not consulted
ListAll(ok) == IF ok THEN remote ELSE <<>>

\* Run, first ListAll
RunListAll ==
    /\ pc = "list"
    /\ \E ok \in BOOLEAN :
          /\ calls' = [calls EXCEPT !.ListAll = @ + 1, !.listFailed = ~ok,
                                    !.cancelledAtList = ok /\ ctxDone]
          /\ files' = ListAll(ok)
          /\ pc' = IF ok THEN "plan" ELSE "refresh"
    /\ UNCHANGED <<config, ignoreFile, env, ia, ls, printed, token, remote, fs, now, ctxDone, runsLeft, stats, sem,
                   errChan, chanState, walk, wk, runErr, prev>>

\* Run, RefreshToken after a failed listing
RunRefresh ==
    /\ pc = "refresh"
    /\ calls' = [calls EXCEPT !.refreshAfterFail = @ + 1]
    /\ \/ /\ token' = FreshToken
          /\ pc' = "relist"
          /\ UNCHANGED runErr
       \/ /\ runErr' = Failed("list and refresh", "list")
          /\ pc' = "done"
          /\ UNCHANGED token
    /\ UNCHANGED <<config, ignoreFile, env, ia, ls, printed, remote, fs, now, ctxDone, runsLeft, files, stats, sem,
                   errChan, chanState, walk, wk, prev>>

\* a retry loop instead of a single retry
AfterRetryLoop(ok) == IF ok THEN "plan" ELSE "refresh"

\* where Run goes after the second ListAll
AfterRetry(ok) == IF ok THEN "plan" ELSE "done"

\* Run, "Retry listing after token refresh"
RunListAllRetry ==
    /\ pc = "relist"
    /\ \E ok \in BOOLEAN :
          /\ calls' = [calls EXCEPT !.ListAll = @ + 1,
                                    !.cancelledAtList = ok /\ ctxDone]
          /\ files' = ListAll(ok)
          /\ pc' = AfterRetry(ok)
          /\ runErr' = IF ok THEN runErr ELSE Failed("list after refresh", "list")
    /\ UNCHANGED <<config, ignoreFile, env, ia, ls, printed, token, remote, fs, now, ctxDone, runsLeft, stats, sem,
                   errChan, chanState, walk, wk, prev>>

\* a goroutine for every entry, folders too
SpawnAll(fl) == DOMAIN fl

\* downloadFiles: the entries its loop starts a goroutine for
Spawn(fl) == {j \in DOMAIN fl : ~fl[j].IsFolder}

Count(fl, folder) == Cardinality({i \in DOMAIN fl : fl[i].IsFolder = folder})

\* Run, counting and filtering, then downloadFiles up to its range over errChan:
\* one goroutine per non-folder entry and the goroutine that closes errChan
RunPlan ==
    /\ pc = "plan"
    /\ stats' = [stats EXCEPT !.TotalFiles = Count(files, FALSE),
                              !.TotalFolders = Count(files, TRUE)]
    /\ files' = filterFiles(config.Exclude, files)
    /\ wk' = [i \in Spawn(files') |-> IdleWorker]
    /\ errChan' = <<>>
    /\ chanState' = "open"
    /\ pc' = "collect"
    /\ UNCHANGED <<config, ignoreFile, env, ia, ls, printed, token, remote, fs, now, ctxDone, runsLeft, sem, walk,
                   runErr, calls, prev>>

\* --------------------------------------------------- the download workers
\* filepath.Join(BackupDir, strings.TrimPrefix(file.Path, "/"))
LocalOf(i) == LocalPath(files[i].Path)

\* a send that is let through when the channel is already full
CanAcquireOffByOne == sem <= config.MaxConcurrency

\* the select's send case: e.semaphore has room
CanAcquire == sem < config.MaxConcurrency

\* an error channel without a buffer
ErrChanCapUnbuffered(fl) == 0

\* errChan := make(chan error, len(files))
ErrChanCap(fl) == Len(fl)

\* a send on errChan goes through: the buffer has room (once downloadFiles has
\* returned nobody receives any more)
CanSend == Len(errChan) < ErrChanCap(files)

\* worker i's select: a slot, or the cancelled context; Go picks either when
\* both are ready
WorkerAcquire == \E i \in DOMAIN wk :
    /\ wk[i].pc = "acquire"
    /\ \/ /\ CanAcquire
          /\ sem' = sem + 1
          /\ wk' = [wk EXCEPT ![i].pc = "stat", ![i].late = ctxDone,
                              ![i].acquired = TRUE]
          /\ UNCHANGED errChan
       \/ /\ ctxDone
          /\ CanSend
          /\ errChan' = Append(errChan, "canceled")
          /\ wk' = [wk EXCEPT ![i].pc = "done", ![i].err = "canceled"]
          /\ UNCHANGED sem
    /\ UNCHANGED <<config, ignoreFile, env, ia, ls, printed, token, remote, fs, now, ctxDone, pc, runsLeft, files,
                   stats, chanState, walk, runErr, calls, prev>>

\* downloadFile: the skip decision on what os.Stat finds
WorkerStat == \E i \in DOMAIN wk :
    /\ wk[i].pc = "stat"
    /\ LET st == fs[LocalOf(i)]
           sk == shouldSkipFile(st, files[i])
       IN wk' = [wk EXCEPT ![i].stat = st,
                           ![i].skip = IF sk THEN "yes" ELSE "no",
                           ![i].pc = IF sk THEN "skipRead" ELSE "mkdir"]
    /\ UNCHANGED <<config, ignoreFile, env, ia, ls, printed, token, remote, fs, now, ctxDone, pc, runsLeft, files,
                   stats, sem, errChan, chanState, walk, runErr, calls, prev>>

\* stats.SkippedFiles++ is a plain load and a plain store
WorkerSkipRead == \E i \in DOMAIN wk :
    /\ wk[i].pc = "skipRead"
    /\ wk' = [wk EXCEPT ![i].tmp = stats.SkippedFiles, ![i].pc = "skipWrite"]
    /\ UNCHANGED <<config, ignoreFile, env, ia, ls, printed, token, remote, fs, now, ctxDone, pc, runsLeft, files,
                   stats, sem, errChan, chanState, walk, runErr, calls, prev>>

WorkerSkipWrite == \E i \in DOMAIN wk :
    /\ wk[i].pc = "skipWrite"
    /\ stats' = [stats EXCEPT !.SkippedFiles = wk[i].tmp + 1]
    /\ wk' = [wk EXCEPT ![i].pc = "exit"]
    /\ UNCHANGED <<config, ignoreFile, env, ia, ls, printed, token, remote, fs, now, ctxDone, pc, runsLeft, files,
                   sem, errChan, chanState, walk, runErr, calls, prev>>

\* os.MkdirAll(filepath.Dir(localPath))
WorkerMkdir == \E i \in DOMAIN wk :
    /\ wk[i].pc = "mkdir"
    /\ \/ wk' = [wk EXCEPT ![i].pc = "download"]
       \/ wk' = [wk EXCEPT ![i].pc = "report", ![i].err = "mkdir"]
    /\ UNCHANGED <<config, ignoreFile, env, ia, ls, printed, token, remote, fs, now, ctxDone, pc, runsLeft, files,
                   stats, sem, errChan, chanState, walk, runErr, calls, prev>>

\* a downloadFile that goes on to os.Create whatever Download returned
AfterDownloadFailedGoOn == "create"

\* downloadFile, on the error of Download: return it, before os.Create
AfterDownloadFailed == "report"

\* e.dropboxClient.Download(ctx, file.Path): the context is not consulted
WorkerDownload == \E i \in DOMAIN wk :
    /\ wk[i].pc = "download"
    /\ \/ wk' = [wk EXCEPT ![i].pc = "create", ![i].downloads = @ + 1]
       \/ wk' = [wk EXCEPT ![i].pc = AfterDownloadFailed, ![i].downloads = @ + 1,
                           ![i].err = "download"]
    /\ UNCHANGED <<config, ignoreFile, env, ia, ls, printed, token, remote, fs, now, ctxDone, pc, runsLeft, files,
                   stats, sem, errChan, chanState, walk, runErr, calls, prev>>

\* os.Create(localPath): creates or truncates
WorkerCreate == \E i \in DOMAIN wk :
    /\ wk[i].pc = "create"
    /\ \/ /\ fs' = [fs EXCEPT ![LocalOf(i)] = LocalFile(0, now)]
          /\ wk' = [wk EXCEPT ![i].pc = "copy"]
       \/ /\ wk' = [wk EXCEPT ![i].pc = "report", ![i].err = "create"]
          /\ UNCHANGED fs
    /\ UNCHANGED <<config, ignoreFile, env, ia, ls, printed, token, remote, now, ctxDone, pc, runsLeft, files,
                   stats, sem, errChan, chanState, walk, runErr, calls, prev>>

\* a downloadFile that removes what it wrote when the copy fails
PartialFileRemoved(k, t) == NoFile

\* what a failed io.Copy leaves at localPath: the k bytes written, at the
\* time of the write; nothing removes it
PartialFile(k, t) == LocalFile(k, t)

\* io.Copy(localFile, reader): all of the content, or an error part-way
WorkerCopy == \E i \in DOMAIN wk :
    /\ wk[i].pc = "copy"
    /\ \/ /\ fs' = [fs EXCEPT ![LocalOf(i)] = LocalFile(files[i].Size, now)]
          /\ wk' = [wk EXCEPT ![i].written = files[i].Size,
                              ![i].pc = IF files[i].ModTime # 0 THEN "chtimes"
                                        ELSE "dlRead"]
       \/ \E k \in 0..files[i].Size :
             /\ k < files[i].Size \/ k = 0
             /\ fs' = [fs EXCEPT ![LocalOf(i)] = PartialFile(k, now)]
             /\ wk' = [wk EXCEPT ![i].pc = "report", ![i].err = "copy"]
    /\ UNCHANGED <<config, ignoreFile, env, ia, ls, printed, token, remote, now, ctxDone, pc, runsLeft, files,
                   stats, sem, errChan, chanState, walk, runErr, calls, prev>>

\* what a successful os.Chtimes(localPath, ModTime, ModTime) leaves
Chtimes(f, t) == [f EXCEPT !.mtime = t]

\* a downloadFile that returns the error of os.Chtimes
ChtimesErrorFatal(ok) == IF ok THEN "none" ELSE "chtimes"

\* what downloadFile makes of the result of os.Chtimes: slog.Warn at most
ChtimesError(ok) == "none"

\* "Set modification time": a failure is only logged
WorkerChtimes == \E i \in DOMAIN wk :
    /\ wk[i].pc = "chtimes"
    /\ \E ok \in BOOLEAN :
          /\ fs' = IF ok THEN [fs EXCEPT ![LocalOf(i)] = Chtimes(@, files[i].ModTime)]
                   ELSE fs
          /\ wk' = [wk EXCEPT ![i].chtimes = IF ok THEN "ok" ELSE "failed",
                              ![i].err = ChtimesError(ok),
                              ![i].pc = IF ChtimesError(ok) = "none" THEN "dlRead"
                                        ELSE "report"]
    /\ UNCHANGED <<config, ignoreFile, env, ia, ls, printed, token, remote, now, ctxDone, pc, runsLeft, files,
                   stats, sem, errChan, chanState, walk, runErr, calls, prev>>

\* stats.DownloadedFiles++
WorkerDlRead == \E i \in DOMAIN wk :
    /\ wk[i].pc = "dlRead"
    /\ wk' = [wk EXCEPT ![i].tmp = stats.DownloadedFiles, ![i].pc = "dlWrite"]
    /\ UNCHANGED <<config, ignoreFile, env, ia, ls, printed, token, remote, fs, now, ctxDone, pc, runsLeft, files,
                   stats, sem, errChan, chanState, walk, runErr, calls, prev>>

WorkerDlWrite == \E i \in DOMAIN wk :
    /\ wk[i].pc = "dlWrite"
    /\ stats' = [stats EXCEPT !.DownloadedFiles = wk[i].tmp + 1]
    /\ wk' = [wk EXCEPT ![i].pc = "bytesRead"]
    /\ UNCHANGED <<config, ignoreFile, env, ia, ls, printed, token, remote, fs, now, ctxDone, pc, runsLeft, files,
                   sem, errChan, chanState, walk, runErr, calls, prev>>

\* stats.TotalBytes += uint64(written)
WorkerBytesRead == \E i \in DOMAIN wk :
    /\ wk[i].pc = "bytesRead"
    /\ wk' = [wk EXCEPT ![i].tmp = stats.TotalBytes, ![i].pc = "bytesWrite"]
    /\ UNCHANGED <<config, ignoreFile, env, ia, ls, printed, token, remote, fs, now, ctxDone, pc, runsLeft, files,
                   stats, sem, errChan, chanState, walk, runErr, calls, prev>>

WorkerBytesWrite == \E i \in DOMAIN wk :
    /\ wk[i].pc = "bytesWrite"
    /\ stats' = [stats EXCEPT !.TotalBytes = Add64(wk[i].tmp, wk[i].written)]
    /\ wk' = [wk EXCEPT ![i].pc = "exit"]
    /\ UNCHANGED <<config, ignoreFile, env, ia, ls, printed, token, remote, fs, now, ctxDone, pc, runsLeft, files,
                   sem, errChan, chanState, walk, runErr, calls, prev>>

\* errChan <- fmt.Errorf("failed to download %s: %w", file.Path, err)
WorkerReport == \E i \in DOMAIN wk :
    /\ wk[i].pc = "report"
    /\ CanSend
    /\ errChan' = Append(errChan, wk[i].err)
    /\ wk' = [wk EXCEPT ![i].pc = "exit"]
    /\ UNCHANGED <<config, ignoreFile, env, ia, ls, printed, token, remote, fs, now, ctxDone, pc, runsLeft, files,
                   stats, sem, chanState, walk, runErr, calls, prev>>

\* a worker that returns without the deferred receive
ReleaseNone(n) == n

\* defer func() { <-e.semaphore }(): one value is taken out of the channel
Release(n) == n - 1

\* the deferred <-e.semaphore and wg.Done()
WorkerExit == \E i \in DOMAIN wk :
    /\ wk[i].pc = "exit"
    /\ sem' = Release(sem)
    /\ wk' = [wk EXCEPT ![i].pc = "done"]
    /\ UNCHANGED <<config, ignoreFile, env, ia, ls, printed, token, remote, fs, now, ctxDone, pc, runsLeft, files,
                   stats, errChan, chanState, walk, runErr, calls, prev>>

\* ------------------------------------------- downloadFiles, after the loop
\* a Wait that returns at once
wgWaitNoWait == TRUE

\* wg.Wait() returns: every goroutine has called wg.Done()
wgWait == \A i \in DOMAIN wk : wk[i].pc = "done"

\* go func() { wg.Wait(); close(errChan) }()
CloseErrChan ==
    /\ chanState = "open"
    /\ wgWait
    /\ chanState' = "closed"
    /\ UNCHANGED <<config, ignoreFile, env, ia, ls, printed, token, remote, fs, now, ctxDone, pc, runsLeft, files,
                   stats, sem, errChan, walk, wk, runErr, calls, prev>>

\* a collector that drops what it receives
CollectErrDropped(e) == "nil"

\* what downloadFiles returns for a value received from errChan
CollectErr(e) == e

\* a Run that logs a failed download phase and goes on
AfterDownloadErrorGoOn(del) == IF del THEN "walk" ELSE "log"

\* Run, on the error of downloadFiles: return it wrapped
AfterDownloadError(del) == "done"

\* for err := range errChan: the first error ends downloadFiles and Run
RunCollectErr ==
    /\ pc = "collect"
    /\ Len(errChan) > 0
    /\ errChan' = Tail(errChan)
    /\ IF CollectErr(Head(errChan)) # "nil"
       THEN /\ runErr' = Failed("download files", CollectErr(Head(errChan)))
            /\ pc' = AfterDownloadError(config.Delete)
       ELSE UNCHANGED <<runErr, pc>>
    /\ UNCHANGED <<config, ignoreFile, env, ia, ls, printed, token, remote, fs, now, ctxDone, runsLeft, files, stats,
                   sem, chanState, walk, wk, calls, prev>>

\* byte order of the characters paths are made of
Alphabet == <<"*", "/", "0", "1", "2", "3", "4", "5", "6", "7", "8", "9", "?", "@",
              "d", "f", "k", "n", "o", "u", "w">>
Rank(c) == CHOOSE k \in 1..Len(Alphabet) : Alphabet[k] = c

RECURSIVE LexLess(_, _)
LexLess(a, b) ==
    IF Len(b) = 0 THEN FALSE
    ELSE IF Len(a) = 0 THEN TRUE
    ELSE IF Head(a) # Head(b) THEN Rank(Head(a)) < Rank(Head(b))
    ELSE LexLess(Tail(a), Tail(b))

RECURSIVE SetToSortedSeq(_)
SetToSortedSeq(S) ==
    IF S = {} THEN <<>>
    ELSE LET m == CHOOSE x \in S : \A y \in S \ {x} : LexLess(x, y)
         IN <<m>> \o SetToSortedSeq(S \ {m})

\* a map built from the listing before filtering
dropboxFileMapUnfiltered == {LocalPath(remote[i].Path) : i \in DOMAIN remote}

\* a map keyed by the remote paths themselves
dropboxFileMapRemotePaths == {files[i].Path : i \in DOMAIN files}

\* deleteOrphanedFiles: dropboxFileMap
dropboxFileMap == {LocalPath(files[i].Path) : i \in DOMAIN files}

\* deletion whatever the configuration says
AfterDownloadsAlways(del) == "walk"

\* Run, "Handle deletion if enabled"
AfterDownloads(del) == IF del THEN "walk" ELSE "log"

\* the range over errChan ends: downloadFiles returns nil; Run goes on to
\* deleteOrphanedFiles (filepath.Walk visits in lexical order) or to logStats
RunCollectDone ==
    /\ pc = "collect"
    /\ Len(errChan) = 0
    /\ chanState = "closed"
    /\ pc' = AfterDownloads(config.Delete)
    /\ IF pc' = "walk"
       THEN /\ walk' = SetToSortedSeq({p \in LocalPaths : fs[p].exists})
            /\ calls' = [calls EXCEPT !.deleteStarted = TRUE]
       ELSE UNCHANGED <<walk, calls>>
    /\ UNCHANGED <<config, ignoreFile, env, ia, ls, printed, token, remote, fs, now, ctxDone,
                   runsLeft, files, stats, sem, errChan, chanState, wk, runErr, prev>>

\* the local path has something below it
HasChildren(f, p) == \E q \in DOMAIN f : f[q].exists /\ HasPrefix(q, p \o <<"/">>)

\* a walk function without the "Skip directories" test
WalkVerdictNoDirTest(info, inMap) == IF ~inMap THEN "remove" ELSE "keep"

\* the walk function of deleteOrphanedFiles on one entry
WalkVerdict(info, inMap) ==
    IF info.isDir THEN "keep"
    ELSE IF ~inMap THEN "remove"
    ELSE "keep"

\* a walk that logs the error of an entry and goes on to the next one
AfterWalkErrorGoOn == "walk"

\* filepath.Walk, on an error returned by the walk function: the walk ends and
\* Run returns "failed to delete orphaned files"
AfterWalkError == "done"

\* one call of the walk function: a walk error, an entry passed over, or
\* os.Remove, which fails on a directory that is not empty
RunWalkStep ==
    /\ pc = "walk"
    /\ Len(walk) > 0
    /\ LET p == Head(walk)
           v == WalkVerdict(fs[p], p \in dropboxFileMap)
       IN \/ /\ runErr' = Failed("delete orphaned files", "walk")
             /\ pc' = AfterWalkError
             /\ walk' = IF pc' = "walk" THEN Tail(walk) ELSE walk
             /\ UNCHANGED <<fs, stats, calls>>
          \/ /\ v = "keep"
             /\ walk' = Tail(walk)
             /\ UNCHANGED <<fs, stats, pc, runErr, calls>>
          \/ /\ v = "remove"
             /\ \/ /\ ~(fs[p].isDir /\ HasChildren(fs, p))
                   /\ fs' = [fs EXCEPT ![p] = NoFile]
                   /\ stats' = [stats EXCEPT !.DeletedFiles = @ + 1]
                   /\ calls' = [calls EXCEPT !.removed = @ \cup {p}]
                   /\ walk' = Tail(walk)
                   /\ UNCHANGED <<pc, runErr>>
                \/ /\ runErr' = Failed("delete orphaned files", "remove")
                   /\ pc' = AfterWalkError
                   /\ walk' = IF pc' = "walk" THEN Tail(walk) ELSE walk
                   /\ UNCHANGED <<fs, stats, calls>>
    /\ UNCHANGED <<config, ignoreFile, env, ia, ls, printed, token, remote, now, ctxDone,
                   runsLeft, files, sem, errChan, chanState, wk, prev>>

\* the walk is over: deleteOrphanedFiles returns nil
RunFinish ==
    /\ pc = "walk"
    /\ Len(walk) = 0
    /\ pc' = "log"
    /\ UNCHANGED <<config, ignoreFile, env, ia, ls, printed, token, remote, fs, now, ctxDone,
                   runsLeft, files, stats, sem, errChan, chanState, walk, wk,
                   runErr, calls, prev>>

\* Run, the end: logStats prints the size summary when asked to; return nil
RunLogStats ==
    /\ pc = "log"
    /\ printed' = IF config.ShowSize THEN formatBytes(stats.TotalBytes) ELSE printed
    /\ pc' = "done"
    /\ runErr' = Nil
    /\ UNCHANGED <<config, ignoreFile, env, ia, ls, token, remote, fs, now, ctxDone, runsLeft,
                   files, stats, sem, errChan, chanState, walk, wk, calls, prev>>

\* how the download of entry i ended, as the next invocation finds it
Outcome(w) ==
    IF w.pc # "done" THEN "unfinished"
    ELSE IF w.err # "none" THEN "failed"
    ELSE IF w.skip = "yes" THEN "skipped"
    ELSE "downloaded"

\* the program is run again on the same backup directory, with a new Engine
StartRun ==
    /\ pc = "done"
    /\ calls.exited
    /\ runsLeft > 0
    /\ runsLeft' = runsLeft - 1
    /\ prev' = [ran |-> TRUE, outcome |-> [i \in DOMAIN wk |-> Outcome(wk[i])],
                 err |-> [i \in DOMAIN wk |-> wk[i].err], fs0 |-> fs]
    /\ now' \in now..(MaxTime + 1)
    /\ ctxDone' = FALSE
    /\ pc' = "checkToken"
    /\ files' = <<>>
    /\ stats' = NoStats
    /\ sem' = 0
    /\ errChan' = <<>>
    /\ chanState' = "none"
    /\ walk' = <<>>
    /\ wk' = <<>>
    /\ runErr' = Running
    /\ calls' = NoCalls
    /\ printed' = <<>>
    /\ UNCHANGED <<config, ignoreFile, env, ia, ls, token, remote, fs>>

Next ==
    \/ Cancel
    \/ DeferredCancel
    \/ ProcessExit
    \/ RunCheckToken
    \/ RunListAll
    \/ RunRefresh
    \/ RunListAllRetry
    \/ RunPlan
    \/ WorkerAcquire
    \/ WorkerStat
    \/ WorkerSkipRead
    \/ WorkerSkipWrite
    \/ WorkerMkdir
    \/ WorkerDownload
    \/ WorkerCreate
    \/ WorkerCopy
    \/ WorkerChtimes
    \/ WorkerDlRead
    \/ WorkerDlWrite
    \/ WorkerBytesRead
    \/ WorkerBytesWrite
    \/ WorkerReport
    \/ WorkerExit
    \/ CloseErrChan
    \/ RunCollectErr
    \/ RunCollectDone
    \/ RunWalkStep
    \/ RunFinish
    \/ RunLogStats
    \/ StartRun

Spec == Init /\ [][Next]_vars

\* ------------------------------------------------ the exclusion filter alone
MaxRules   == 2    \* --exclude flags given
MaxListing == 2    \* entries ListAll returns

\* --exclude 'o/', '*1', '/f1', '/*', 'o', '@i'
DirRule   == <<"o", "/">>
PathRule  == <<"/", "f", "1">>
StarRule  == <<"/", "*">>
NameRule  == <<"o">>
FileRule  == <<"@", "i">>
PlainRules == {DirRule, ExcludeRule, PathRule, StarRule, NameRule}
FilterRules == PlainRules \cup {FileRule}

\* the entries of an account with the folders /o and /f/o
FilterEntries ==
    {FileInfo(<<"/", "o">>, TRUE, 0, 0),
     FileInfo(<<"/", "f", "/", "o">>, TRUE, 0, 0),
     FileInfo(<<"/", "o", "/", "f", "1">>, FALSE, MaxSize, MaxTime),
     FileInfo(<<"/", "f", "/", "o", "/", "f">>, FALSE, MaxSize, MaxTime),
     FileInfo(<<"/", "f", "o", "/", "f">>, FALSE, MaxSize, MaxTime),
     FileInfo(<<"/", "f", "1">>, FALSE, MaxSize, MaxTime),
     FileInfo(<<"/", "f", "/", "f", "1">>, FALSE, MaxSize, MaxTime)}

SeqsUpTo(S, n) == UNION {[1..k -> S] : k \in 0..n}

\* An invocation with up to MaxRules exclusion rules of every kind on an
\* account of up to MaxListing entries; the file an @ rule names holds no
\* line or one rule.
InitFilter ==
    /\ config \in [MaxConcurrency : {1}, Delete : {FALSE},
                  Exclude : SeqsUpTo(FilterRules, MaxRules), ShowSize : {TRUE}]
    /\ ignoreFile \in SeqsUpTo(PlainRules, 1)
    /\ (\A k \in DOMAIN config.Exclude : config.Exclude[k] # FileRule) => ignoreFile = <<>>
    /\ token = FreshToken
    /\ remote \in SeqsUpTo(FilterEntries, MaxListing) \ {<<>>}
    /\ fs = [p \in LocalPaths |-> NoFile]
    /\ now = MaxTime + 1
    /\ runsLeft = 0
    /\ FreshRun

\* Run up to the start of the downloads
NextFilter ==
    \/ RunCheckToken
    \/ RunListAll
    \/ RunPlan

SpecFilter == InitFilter /\ [][NextFilter]_vars

\* ------------------------------------------------------- formatBytes alone
\* digits a byte count is made of
LimbSamples == {0, 1, 51, 52, 512, 1023}

\* the uint64 whose three highest digits are top, mid and low, the highest at
\* position k (from 0), and whose lowest digit is 1 if asked
MkUint64(k, top, mid, low, one) ==
    [j \in 1..Uint64Limbs |->
        IF j = k + 1 THEN top
        ELSE IF j = k THEN mid
        ELSE IF j = k - 1 THEN low
        ELSE IF j = 1 /\ one THEN 1
        ELSE 0]

MaxUint64 == [j \in 1..Uint64Limbs |-> IF j = Uint64Limbs THEN TopLimbRange - 1 ELSE unit - 1]

\* byte counts of every magnitude that float64 holds exactly, and the largest
\* uint64
FormatInputs ==
    UNION {{MkUint64(k, top, mid, low, one) :
               top \in (IF k + 1 = Uint64Limbs THEN {1, TopLimbRange - 1}
                        ELSE LimbSamples \ {0}),
               mid \in LimbSamples, low \in LimbSamples,
               one \in (IF k <= 4 THEN BOOLEAN ELSE {FALSE})} :
           k \in 0..(Uint64Limbs - 1)}
        \cup {Uint64(0), MaxUint64}

\* A run that has reached logStats with any of these byte counts in its Stats
InitFormat ==
    /\ config = [MaxConcurrency |-> 1, Delete |-> FALSE, Exclude |-> <<>>,
                 ShowSize |-> TRUE]
    /\ ignoreFile = <<>>
    /\ token = FreshToken
    /\ remote = <<>>
    /\ fs = [p \in LocalPaths |-> NoFile]
    /\ now = MaxTime + 1
    /\ runsLeft = 0
    /\ ctxDone = FALSE
    /\ pc = "log"
    /\ files = <<>>
    /\ stats \in {[NoStats EXCEPT !.TotalBytes = b] : b \in FormatInputs}
    /\ sem = 0
    /\ errChan = <<>>
    /\ chanState = "closed"
    /\ walk = <<>>
    /\ wk = <<>>
    /\ runErr = Running
    /\ calls = [NoCalls EXCEPT !.ListAll = 1]
    /\ prev = [ran |-> FALSE, outcome |-> <<>>, err |-> <<>>, fs0 |-> fs]
    /\ printed = <<>>
    /\ env = NoEnv
    /\ ia = NoAuth
    /\ ls = NoListing

NextFormat == RunLogStats

SpecFormat == InitFormat /\ [][NextFormat]_vars

\* ------------------------------------------------------- config.Load alone
\* the variables of Run before there is an Engine
NoEngine ==
    /\ ignoreFile = <<>>
    /\ token = FreshToken
    /\ remote = <<>>
    /\ fs = [p \in LocalPaths |-> NoFile]
    /\ now = MaxTime + 1
    /\ runsLeft = 0
    /\ ctxDone = FALSE
    /\ files = <<>>
    /\ stats = NoStats
    /\ sem = 0
    /\ errChan = <<>>
    /\ chanState = "none"
    /\ walk = <<>>
    /\ wk = <<>>
    /\ runErr = Running
    /\ calls = NoCalls
    /\ prev = [ran |-> FALSE, outcome |-> <<>>, err |-> <<>>, fs0 |-> fs]
    /\ printed = <<>>
    /\ ls = NoListing

engineVars == <<token, remote, fs, now, ctxDone, runsLeft, files, stats, sem, errChan,
                chanState, walk, wk, calls, prev, ignoreFile, printed, ls>>

\* runBackup about to call config.Load, with --backup-dir not given, 'b',
\* '/b', './b', 'b/' or '../b', DROPBOX_BACKUP_FOLDER not set, 'e' or '/e//e',
\* any of two working directories and any of two clocks
InitConfig ==
    /\ env \in [opts : [BackupDir : {<<>>, <<"b">>, <<"/", "b">>, <<".", "/", "b">>,
                                     <<"b", "/">>, <<".", ".", "/", "b">>},
                        Delete : BOOLEAN, Exclude : {<<>>}, ShowSize : {TRUE}],
                DROPBOX_BACKUP_FOLDER : {<<>>, <<"e">>, <<"/", "e", "/", "/", "e">>},
                credentials : BOOLEAN,
                cwd : {<<"/">>, <<"/", "w">>},
                clock : {[year |-> 2024, month |-> 1, day |-> 2, hour |-> 3,
                          minute |-> 4, second |-> 5],
                         [year |-> 2025, month |-> 12, day |-> 31, hour |-> 23,
                          minute |-> 59, second |-> 58]}]
    /\ config = NoConfig
    /\ ia = NoAuth
    /\ pc = "load"
    /\ NoEngine

\* config.Load: setBackupDir (filepath.Abs fails on a relative path when the
\* working directory cannot be read, os.MkdirAll may fail), then validate
Load ==
    /\ pc = "load"
    /\ \/ /\ ~IsAbs(ChosenDir(env))
          /\ runErr' = Failed("load configuration", "abs")
          /\ pc' = "done"
          /\ UNCHANGED config
       \/ /\ runErr' = Failed("load configuration", "mkdir")
          /\ pc' = "done"
          /\ UNCHANGED config
       \/ /\ ~env.credentials
          /\ runErr' = Failed("load configuration", "validate")
          /\ pc' = "done"
          /\ UNCHANGED config
       \/ /\ env.credentials
          /\ config' = LoadedConfig(env)
          /\ pc' = "loaded"
          /\ UNCHANGED runErr
    /\ UNCHANGED <<env, ia>>
    /\ UNCHANGED engineVars

NextConfig == Load

SpecConfig == InitConfig /\ [][NextConfig]_vars

\* ------------------------------------------------- the token check alone
\* no token; or one with or without an access token that does not expire, has
\* expired, or expires before, at or after the end of the buffer
TokenInputs ==
    {NilToken} \cup
    [AccessToken : {"", "tok"},
     Expiry : {0, ClockMin - 1, ClockMin, ClockMin + TokenBuffer - 1,
               ClockMin + TokenBuffer, ClockMin + TokenBuffer + 1,
               ClockMin + TokenBuffer + 2}]

\* An invocation whose client holds any of these tokens, on an account of one
\* file
InitToken ==
    /\ config = [MaxConcurrency |-> 1, Delete |-> FALSE, Exclude |-> <<>>,
                 ShowSize |-> TRUE]
    /\ ignoreFile = <<>>
    /\ token \in TokenInputs
    /\ remote \in {<<FileEntry(1, s, t)>> : s \in 0..MaxSize, t \in 0..MaxTime}
    /\ fs = [p \in LocalPaths |-> NoFile]
    /\ now = MaxTime + 1
    /\ runsLeft = 0
    /\ FreshRun

\* Run up to its first listing
NextToken ==
    \/ RunCheckToken
    \/ RunListAll

SpecToken == InitToken /\ [][NextToken]_vars

\* ------------------------------------------- the interactive OAuth2 flow
\* the values rand.Read can give the state of a flow
OAuthStates == {"s1", "s2"}

\* the auth subcommand about to call Authenticate on a new InteractiveAuth
InitAuth ==
    /\ config = NoConfig
    /\ env = NoEnv
    /\ ia = NoAuth
    /\ pc = "auth"
    /\ NoEngine

\* a send on resultChan, of capacity 1: Authenticate receives once, a sender
\* that finds the channel full stays blocked
Send(ch, r) == IF Len(ch) = 0 THEN <<r>> ELSE ch

\* startCallbackServer: the goroutine of ListenAndServe serves, or fails and
\* sends its error
AuthStartServer ==
    /\ ia.pc = "new"
    /\ \/ ia' = [ia EXCEPT !.pc = "serving", !.listening = TRUE]
       \/ ia' = [ia EXCEPT !.pc = "serving",
                           !.resultChan = Send(@, "callback server error")]
    /\ UNCHANGED <<config, env, pc, runErr>>
    /\ UNCHANGED engineVars

\* Authenticate, StartOAuthFlow: a random state, or the error of rand.Read
\* (and the deferred stopCallbackServer)
AuthStartFlow ==
    /\ ia.pc = "serving"
    /\ \/ \E s \in OAuthStates : ia' = [ia EXCEPT !.pc = "store", !.generated = s]
       \/ ia' = [ia EXCEPT !.pc = "returned", !.result = "failed to start OAuth flow",
                           !.listening = FALSE]
    /\ UNCHANGED <<config, env, pc, runErr>>
    /\ UNCHANGED engineVars

\* Authenticate, "Store for use in callback": ia.state = state
AuthStore ==
    /\ ia.pc = "store"
    /\ ia' = [ia EXCEPT !.pc = "waiting", !.state = ia.generated]
    /\ UNCHANGED <<config, env, pc, runErr>>
    /\ UNCHANGED engineVars

\* Authenticate, "Wait for callback or timeout", and the deferred
\* stopCallbackServer
AuthWait ==
    /\ ia.pc = "waiting"
    /\ \/ /\ Len(ia.resultChan) > 0
          /\ ia' = [ia EXCEPT !.pc = "returned", !.result = Head(ia.resultChan),
                              !.resultChan = <<>>, !.listening = FALSE]
       \/ ia' = [ia EXCEPT !.pc = "returned", !.result = "authentication timeout",
                           !.listening = FALSE]
    /\ UNCHANGED <<config, env, pc, runErr>>
    /\ UNCHANGED engineVars

\* handleCallback, up to the exchange: what it does with a request
handleCallback(state, code, errorParam, stored) ==
    IF errorParam # "" THEN "OAuth error"
    ELSE IF state # stored THEN "invalid state parameter"
    ELSE IF code = "" THEN "no authorization code received"
    ELSE "exchange"

\* a request to /callback is served: by anyone who can reach the port, from
\* the moment the server listens until it is shut down; state, code and error
\* of its query are each absent ("") or present
HandleCallback ==
    /\ ia.listening
    /\ \E state \in {""} \cup OAuthStates, code \in {"", "code"},
          errorParam \in {"", "access_denied"} :
          LET v == handleCallback(state, code, errorParam, ia.state)
          IN IF v = "exchange"
             THEN \/ ia' = [ia EXCEPT !.exchanged = @ \cup {state},
                                      !.resultChan = Send(@, "token")]
                  \/ ia' = [ia EXCEPT !.resultChan = Send(@, "failed to exchange code")]
             ELSE ia' = [ia EXCEPT !.resultChan = Send(@, v)]
    /\ UNCHANGED <<config, env, pc, runErr>>
    /\ UNCHANGED engineVars

NextAuth ==
    \/ AuthStartServer
    \/ AuthStartFlow
    \/ AuthStore
    \/ AuthWait
    \/ HandleCallback

SpecAuth == InitAuth /\ [][NextAuth]_vars

\* ------------------------------------------ ListAll, one call at a time
\* the paths of an account with a folder and a folder inside it; "" is the root
Root == <<>>
DirPath == <<"/", "d">>
SubDirPath == <<"/", "d", "/", "d">>

\* folder path -> the results ListFolder and ListFolderContinue return for it:
\* the entries of each folder as convertToFileInfo gives them, handed out in
\* one result or in two with HasMore set on the first (either may be empty)
Accounts ==
    LET RootEntries == <<FileEntry(1, MaxSize, MaxTime), FileInfo(DirPath, TRUE, 0, 0),
                         UnknownEntry>>
        DirEntries == <<FileInfo(DirPath \o <<"/", "o">>, FALSE, MaxSize, MaxTime),
                        FileInfo(SubDirPath, TRUE, 0, 0)>>
        SubDirEntries == <<FileInfo(SubDirPath \o <<"/", "o">>, FALSE, 0, MaxTime)>>
        Pagings(es) ==
            {<<es>>} \cup {<<SubSeq(es, 1, k), SubSeq(es, k + 1, Len(es))>> :
                              k \in 0..Len(es)}
    IN {[p \in {Root, DirPath, SubDirPath} |->
            IF p = Root THEN r ELSE IF p = DirPath THEN d ELSE <<SubDirEntries>>] :
          r \in Pagings(RootEntries), d \in Pagings(DirEntries)}
       \cup {[p \in {Root} |-> <<<<>>>>]}

\* the account in the order a depth-first listing gives: each entry, followed
\* at once by what is below it when it is a folder
RECURSIVE FlatEntries(_, _)
RECURSIVE FlatPages(_, _)
FlatEntries(A, es) ==
    IF es = <<>> THEN <<>>
    ELSE <<Head(es)>>
         \o (IF Head(es).IsFolder THEN FlatPages(A, A[Head(es).Path]) ELSE <<>>)
         \o FlatEntries(A, Tail(es))

FlatPages(A, ps) ==
    IF ps = <<>> THEN <<>> ELSE FlatEntries(A, Head(ps)) \o FlatPages(A, Tail(ps))

\* An invocation with a valid token on any of these accounts
InitList ==
    /\ config = [MaxConcurrency |-> 1, Delete |-> FALSE, Exclude |-> <<>>,
                 ShowSize |-> TRUE]
    /\ ignoreFile = <<>>
    /\ token = FreshToken
    /\ \E A \in Accounts :
          /\ ls = [NoListing EXCEPT !.account = A]
          /\ remote = FlatPages(A, A[Root])
    /\ fs = [p \in LocalPaths |-> NoFile]
    /\ now = MaxTime + 1
    /\ runsLeft = 0
    /\ ctxDone = FALSE
    /\ pc = "checkToken"
    /\ files = <<>>
    /\ stats = NoStats
    /\ sem = 0
    /\ errChan = <<>>
    /\ chanState = "none"
    /\ walk = <<>>
    /\ wk = <<>>
    /\ runErr = Running
    /\ calls = NoCalls
    /\ prev = [ran |-> FALSE, outcome |-> <<>>, err |-> <<>>, fs0 |-> fs]
    /\ printed = <<>>
    /\ env = NoEnv
    /\ ia = NoAuth

\* the innermost call of listRecursive: its path, the result it holds (none
\* yet: 0) and the entry its loop is at
Top == ls.stack[Len(ls.stack)]

\* res.Entries of the result the innermost call holds
Entries == ls.account[Top.path][Top.res]

\* a ListAll that hands over what it has gathered, error or not
ListAllResultPartial(all, err) == all

\* what ListAll returns: nil with the error, or allFiles
ListAllResult(all, err) == IF err THEN <<>> ELSE all

\* Run calls ListAll: var allFiles; listRecursive(ctx, "", &allFiles)
ListAllCall ==
    /\ pc = "list"
    /\ ls' = [ls EXCEPT !.stack = <<[path |-> Root, res |-> 0, idx |-> 0]>>, !.allFiles = <<>>, !.err = FALSE]
    /\ pc' = "listing"
    /\ UNCHANGED <<config, ignoreFile, env, ia, printed, token, remote, fs, now, ctxDone,
                   runsLeft, files, stats, sem, errChan, chanState, walk, wk, runErr,
                   calls, prev>>

\* c.dbx.ListFolder(arg) for the path of the call; its error is returned by
\* every caller up to ListAll
ListFolder ==
    /\ pc = "listing"
    /\ ls.stack # <<>>
    /\ Top.res = 0
    /\ \/ ls' = [ls EXCEPT !.stack[Len(ls.stack)] = [Top EXCEPT !.res = 1, !.idx = 1]]
       \/ ls' = [ls EXCEPT !.err = TRUE, !.stack = <<>>]
    /\ UNCHANGED <<config, ignoreFile, env, ia, printed, token, remote, fs, now, ctxDone,
                   pc, runsLeft, files, stats, sem, errChan, chanState, walk, wk,
                   runErr, calls, prev>>

\* one entry of res.Entries: appended, and listed in turn when it is a folder
ListEntry ==
    /\ pc = "listing"
    /\ ls.stack # <<>>
    /\ Top.res >= 1
    /\ Top.idx <= Len(Entries)
    /\ LET fileInfo == Entries[Top.idx]
           stepped == [ls.stack EXCEPT ![Len(ls.stack)].idx = @ + 1]
       IN ls' = [ls EXCEPT !.allFiles = Append(@, fileInfo),
                           !.stack = IF fileInfo.IsFolder
                                     THEN Append(stepped, [path |-> fileInfo.Path,
                                                           res |-> 0, idx |-> 0])
                                     ELSE stepped]
    /\ UNCHANGED <<config, ignoreFile, env, ia, printed, token, remote, fs, now, ctxDone,
                   pc, runsLeft, files, stats, sem, errChan, chanState, walk, wk,
                   runErr, calls, prev>>

\* res.HasMore: c.dbx.ListFolderContinue(cursor)
ListContinue ==
    /\ pc = "listing"
    /\ ls.stack # <<>>
    /\ Top.res >= 1
    /\ Top.idx > Len(Entries)
    /\ Top.res < Len(ls.account[Top.path])
    /\ \/ ls' = [ls EXCEPT !.stack[Len(ls.stack)] = [Top EXCEPT !.res = @ + 1, !.idx = 1]]
       \/ ls' = [ls EXCEPT !.err = TRUE, !.stack = <<>>]
    /\ UNCHANGED <<config, ignoreFile, env, ia, printed, token, remote, fs, now, ctxDone,
                   pc, runsLeft, files, stats, sem, errChan, chanState, walk, wk,
                   runErr, calls, prev>>

\* !res.HasMore: break, return nil
ListReturn ==
    /\ pc = "listing"
    /\ ls.stack # <<>>
    /\ Top.res >= 1
    /\ Top.idx > Len(Entries)
    /\ Top.res = Len(ls.account[Top.path])
    /\ ls' = [ls EXCEPT !.stack = SubSeq(@, 1, Len(@) - 1)]
    /\ UNCHANGED <<config, ignoreFile, env, ia, printed, token, remote, fs, now, ctxDone,
                   pc, runsLeft, files, stats, sem, errChan, chanState, walk, wk,
                   runErr, calls, prev>>

\* the outermost listRecursive has returned: ListAll returns to Run
ListAllReturn ==
    /\ pc = "listing"
    /\ ls.stack = <<>>
    /\ files' = ListAllResult(ls.allFiles, ls.err)
    /\ calls' = [calls EXCEPT !.ListAll = @ + 1, !.listFailed = ls.err,
                              !.cancelledAtList = ~ls.err /\ ctxDone]
    /\ pc' = IF ls.err THEN "refresh" ELSE "plan"
    /\ UNCHANGED <<config, ignoreFile, env, ia, ls, printed, token, remote, fs, now,
                   ctxDone, runsLeft, stats, sem, errChan, chanState, walk, wk,
                   runErr, prev>>

\* Run up to the return of its first ListAll
NextList ==
    \/ Cancel
    \/ RunCheckToken
    \/ ListAllCall
    \/ ListFolder
    \/ ListEntry
    \/ ListContinue
    \/ ListReturn
    \/ ListAllReturn

SpecList == InitList /\ [][NextList]_vars

\* ------------------------------------------- one invocation, scheduled fairly
\* One invocation with a valid token and any pool size New accepts for the
\* semaphore, make(chan struct{}, 0) too, on an account of MaxFiles files and
\* folders, the first of which may have an up-to-date local copy
InitLive ==
    /\ config \in [MaxConcurrency : 0..MaxPool, Delete : {FALSE}, Exclude : {<<>>},
                  ShowSize : {TRUE}]
    /\ ignoreFile = <<>>
    /\ token = FreshToken
    /\ remote \in {r \in [1..MaxFiles -> RemoteKinds] :
                      \A i \in 1..MaxFiles :
                          r[i] \in {FolderEntry(i), FileEntry(i, MaxSize, MaxTime)}}
    /\ fs \in {f \in [LocalPaths -> {NoFile, LocalFile(MaxSize, MaxTime)}] :
                  \A p \in LocalPaths :
                      p # LocalPath(PathOf(1)) => f[p] = NoFile}
    /\ now = MaxTime + 1
    /\ runsLeft = 0
    /\ FreshRun

NextLive ==
    \/ Cancel
    \/ DeferredCancel
    \/ ProcessExit
    \/ RunCheckToken
    \/ RunListAll
    \/ RunRefresh
    \/ RunListAllRetry
    \/ RunPlan
    \/ WorkerAcquire
    \/ WorkerStat
    \/ WorkerSkipRead
    \/ WorkerSkipWrite
    \/ WorkerMkdir
    \/ WorkerDownload
    \/ WorkerCreate
    \/ WorkerCopy
    \/ WorkerChtimes
    \/ WorkerDlRead
    \/ WorkerDlWrite
    \/ WorkerBytesRead
    \/ WorkerBytesWrite
    \/ WorkerReport
    \/ WorkerExit
    \/ CloseErrChan
    \/ RunCollectErr
    \/ RunCollectDone
    \/ RunLogStats

\* the Go scheduler: a goroutine that can run does run, and every call it
\* makes returns; the caller is under no obligation to cancel
Fairness ==
    /\ WF_vars(DeferredCancel) /\ WF_vars(ProcessExit)
    /\ WF_vars(RunCheckToken) /\ WF_vars(RunListAll) /\ WF_vars(RunRefresh)
    /\ WF_vars(RunListAllRetry) /\ WF_vars(RunPlan)
    /\ WF_vars(WorkerAcquire) /\ WF_vars(WorkerStat) /\ WF_vars(WorkerSkipRead)
    /\ WF_vars(WorkerSkipWrite) /\ WF_vars(WorkerMkdir) /\ WF_vars(WorkerDownload)
    /\ WF_vars(WorkerCreate) /\ WF_vars(WorkerCopy) /\ WF_vars(WorkerChtimes)
    /\ WF_vars(WorkerDlRead) /\ WF_vars(WorkerDlWrite) /\ WF_vars(WorkerBytesRead)
    /\ WF_vars(WorkerBytesWrite) /\ WF_vars(WorkerReport) /\ WF_vars(WorkerExit)
    /\ WF_vars(CloseErrChan) /\ WF_vars(RunCollectErr) /\ WF_vars(RunCollectDone)
    /\ WF_vars(RunLogStats)

SpecLive == InitLive /\ [][NextLive]_vars /\ Fairness

\* ================================================================ claims
\* workers between the semaphore send and the deferred receive
Holding == {"stat", "skipRead", "skipWrite", "mkdir", "download", "create", "copy",
            "chtimes", "dlRead", "dlWrite", "bytesRead", "bytesWrite", "report", "exit"}

InFlight == Cardinality({i \in DOMAIN wk : wk[i].pc \in Holding})

\* C1: at most MaxConcurrency workers hold a semaphore slot (are inside
\* downloadFile) at any moment, however many non-folder entries there are
C1_PoolCap == InFlight <= config.MaxConcurrency

\* more workers than slots, every slot taken, one worker waiting
C1_Witness ==
    /\ Cardinality(DOMAIN wk) > config.MaxConcurrency
    /\ InFlight = config.MaxConcurrency
    /\ \E i \in DOMAIN wk : wk[i].pc = "acquire"

\* worker i has sent an error on errChan
Reported(i) == wk[i].err # "none" /\ wk[i].pc \in {"exit", "done"}

\* downloadFiles has returned nil
DownloadPhaseNil ==
    \/ pc \in {"walk", "log"}
    \/ pc = "done" /\ runErr.stage \in {"nil", "delete orphaned files"}

\* C2: once a worker has reported an error Run cannot return nil, and the
\* download phase returns nil only when every worker ended without an error
C2_ErrorFailsRun ==
    /\ (pc = "done" /\ \E i \in DOMAIN wk : Reported(i)) => runErr # Nil
    /\ DownloadPhaseNil => \A i \in DOMAIN wk : wk[i].pc = "done" /\ wk[i].err = "none"

\* Run has failed on a download error while another download went through
C2_Witness ==
    /\ pc = "done"
    /\ runErr.stage = "download files"
    /\ \E i \in DOMAIN wk : Reported(i) /\ wk[i].err \in {"mkdir", "download", "create", "copy"}
    /\ \E i \in DOMAIN wk : wk[i].pc = "done" /\ wk[i].err = "none"

RECURSIVE SumWritten(_)
SumWritten(S) ==
    IF S = {} THEN 0
    ELSE LET i == CHOOSE x \in S : TRUE IN wk[i].written + SumWritten(S \ {i})

Succeeded == {i \in DOMAIN wk : wk[i].pc = "done" /\ wk[i].err = "none"}

\* C3: once all workers have terminated, DownloadedFiles + SkippedFiles is the
\* number of workers whose downloadFile returned nil and TotalBytes is the
\* sum of the bytes the successful downloads wrote
C3_StatsLinearizable ==
    (DOMAIN wk # {} /\ \A i \in DOMAIN wk : wk[i].pc = "done") =>
        /\ stats.DownloadedFiles + stats.SkippedFiles = Cardinality(Succeeded)
        /\ stats.TotalBytes = Uint64(SumWritten(Succeeded))

\* C4: a context cancelled before the listing completes makes Run return a
\* cancellation error, and no Download call is made in that run (stated for
\* the runs that have a file to download)
C4_CancelBeforeListing ==
    (calls.cancelledAtList /\ DOMAIN wk # {}) =>
        /\ \A i \in DOMAIN wk : wk[i].downloads = 0
        /\ pc = "done" => runErr.cause = "canceled"

NoDownloadNoDelete ==
    /\ \A i \in DOMAIN wk : wk[i].downloads = 0 /\ wk[i].skip = "none"
    /\ DOMAIN wk = {}
    /\ ~calls.deleteStarted
    /\ stats.DeletedFiles = 0
    /\ fs = prev.fs0

\* C5: after a failed first ListAll, Run calls RefreshToken once and, if that
\* succeeds, ListAll once more; a failed refresh or second listing ends Run
\* with an error and without download or deletion; ListAll is called at most
\* twice in a run
C5_ListRetryOnce ==
    /\ calls.ListAll <= 2
    /\ calls.refreshAfterFail <= 1
    /\ ~calls.listFailed => calls.ListAll <= 1 /\ calls.refreshAfterFail = 0
    /\ calls.listFailed =>
          /\ pc = "refresh" => calls.ListAll = 1 /\ calls.refreshAfterFail = 0
          /\ pc = "relist" => calls.ListAll = 1 /\ calls.refreshAfterFail = 1
          /\ pc \notin {"refresh", "relist"} => calls.refreshAfterFail = 1
          /\ runErr.stage = "list and refresh" =>
                pc = "done" /\ calls.ListAll = 1 /\ NoDownloadNoDelete
          /\ runErr.stage = "list after refresh" =>
                pc = "done" /\ calls.ListAll = 2 /\ NoDownloadNoDelete
          /\ (pc \notin {"refresh", "relist"} /\ runErr.stage # "list and refresh") =>
                calls.ListAll = 2

\* both listings of a run have failed
C5_Witness ==
    /\ calls.listFailed
    /\ calls.ListAll = 2
    /\ calls.refreshAfterFail = 1
    /\ pc = "done"
    /\ runErr.stage = "list after refresh"

\* C6: an invalid token whose refresh fails ends Run with an error before any
\* ListAll or Download and without touching a local file
C6_BadTokenAborts ==
    calls.authFailed =>
        /\ pc = "done"
        /\ runErr.stage = "refresh token"
        /\ calls.ListAll = 0
        /\ NoDownloadNoDelete

\* the token was found invalid and its refresh failed
C6_Witness ==
    /\ ~IsTokenValid(token)
    /\ calls.authFailed
    /\ calls.ListAll = 0
    /\ pc = "done"

\* the skip decision of C7, stated on what the worker's os.Stat found
SkipExpected(st, f) ==
    /\ st.exists
    /\ f.ModTime # 0
    /\ \/ st.mtime > f.ModTime
       \/ st.size = f.Size /\ st.mtime = f.ModTime

\* C7: shouldSkipFile is true exactly when the local file exists, the remote
\* time is non-zero and the local time is strictly later, or size and time
\* are both equal
C7_SkipIff ==
    \A i \in DOMAIN wk :
        wk[i].skip # "none" => ((wk[i].skip = "yes") <=> SkipExpected(wk[i].stat, files[i]))

\* an equal time with a different size was not skipped
C7_Witness ==
    \E i \in DOMAIN wk :
        /\ wk[i].skip = "no"
        /\ wk[i].stat.exists
        /\ files[i].ModTime # 0
        /\ wk[i].stat.mtime = files[i].ModTime
        /\ wk[i].stat.size # files[i].Size

\* C8: an entry with a zero modification time is never skipped, whatever the
\* local file, and goes on to be downloaded
C8_ZeroTimeNeverSkipped ==
    \A i \in DOMAIN wk :
        (files[i].ModTime = 0 /\ wk[i].skip # "none") =>
            /\ wk[i].skip = "no"
            /\ wk[i].pc \notin {"skipRead", "skipWrite"}

\* a zero-time entry was downloaded over a local file of the same size
C8_Witness ==
    \E i \in DOMAIN wk :
        /\ files[i].ModTime = 0
        /\ wk[i].stat.exists
        /\ wk[i].stat.size = files[i].Size
        /\ wk[i].skip = "no"
        /\ wk[i].downloads = 1

\* worker i has created (truncated) its local file
Overwrote(i) ==
    /\ wk[i].skip = "no"
    /\ \/ wk[i].pc \in {"copy", "chtimes", "dlRead", "dlWrite", "bytesRead", "bytesWrite"}
       \/ wk[i].err = "copy"
       \/ wk[i].pc \in {"exit", "done"} /\ wk[i].err = "none"

\* C9: an existing local file is overwritten only if the remote file is
\* strictly newer than it (stated for remote files whose time is known)
C9_OverwriteOnlyIfNewer ==
    \A i \in DOMAIN wk :
        (Overwrote(i) /\ wk[i].stat.exists /\ files[i].ModTime # 0) =>
            files[i].ModTime > wk[i].stat.mtime

\* C10: a file the previous run downloaded, with a non-zero remote time T and
\* left with mtime T and the remote size, is not downloaded again by a run on
\* the same listing: unless the run is cancelled before the worker gets a
\* slot, it is skipped and counted in SkippedFiles
C10_Idempotent ==
    \A i \in DOMAIN wk :
        ( /\ prev.ran
          /\ i \in DOMAIN prev.outcome
          /\ prev.outcome[i] = "downloaded"
          /\ files[i].ModTime # 0
          /\ prev.fs0[LocalOf(i)] = LocalFile(files[i].Size, files[i].ModTime) )
        => /\ wk[i].downloads = 0
           /\ wk[i].skip \in {"none", "yes"}
           /\ wk[i].pc \notin {"mkdir", "dlRead", "dlWrite", "bytesRead", "bytesWrite"}
           /\ stats.DownloadedFiles = 0
           /\ wk[i].err \in {"none", "canceled"}
           /\ (wk[i].pc = "done" /\ wk[i].err = "none") =>
                 wk[i].skip = "yes" /\ stats.SkippedFiles = 1

\* the second run has skipped the file the first run downloaded
C10_Witness ==
    /\ prev.ran
    /\ 1 \in DOMAIN prev.outcome
    /\ prev.outcome[1] = "downloaded"
    /\ 1 \in DOMAIN wk
    /\ wk[1].pc = "done"
    /\ wk[1].skip = "yes"
    /\ stats.SkippedFiles = 1
    /\ stats.DownloadedFiles = 0

\* --------------------------------------------------- the exclusion filter
Range(sq) == {sq[i] : i \in DOMAIN sq}

Reverse(sq) == [i \in 1..Len(sq) |-> sq[Len(sq) + 1 - i]]

\* one rule's own predicate on a path
RulePredicate(r, path) == shouldExclude(<<r>>, path)

AnyRule(rules, path) == \E k \in DOMAIN rules : RulePredicate(rules[k], path)

KeptByOr(fl, rules) == LET keep(e) == ~AnyRule(rules, e.Path) IN SelectSeq(fl, keep)

\* C11: shouldExclude is false for an empty rule set and otherwise the OR of
\* the rules' own predicates, so the same for the rules in reverse order;
\* filterFiles with no rules returns the listing unchanged
C11_ExcludeIsOr ==
    pc = "collect" =>
        /\ Len(config.Exclude) = 0 => files = remote
        /\ files = KeptByOr(remote, config.Exclude)
        /\ files = filterFiles(Reverse(config.Exclude), remote)
        /\ \A i \in DOMAIN remote :
              /\ shouldExclude(config.Exclude, remote[i].Path)
                    <=> AnyRule(config.Exclude, remote[i].Path)
              /\ shouldExclude(<<>>, remote[i].Path) = FALSE

\* an entry the first of two rules does not match was excluded by the second,
\* and another entry was kept
C11_Witness ==
    /\ pc = "collect"
    /\ Len(config.Exclude) = 2
    /\ Len(files) = 1
    /\ \E i \in DOMAIN remote :
          /\ ~RulePredicate(config.Exclude[1], remote[i].Path)
          /\ RulePredicate(config.Exclude[2], remote[i].Path)
          /\ remote[i] \notin Range(files)

\* C12: with an @file rule configured, an entry whose path matches a rule
\* read from that file is excluded
C12_FileRuleReadsFile ==
    pc = "collect" =>
        \A i \in DOMAIN remote :
            ( /\ \E k \in DOMAIN config.Exclude : HasPrefix(config.Exclude[k], <<"@">>)
              /\ \E l \in DOMAIN ignoreFile : RulePredicate(ignoreFile[l], remote[i].Path) )
            => remote[i] \notin Range(files)

\* the segments of a path
SegmentSet(path) ==
    {SubSeq(path, ab[1], ab[2]) :
        ab \in {x \in (1..Len(path)) \X (1..Len(path)) :
                  /\ x[1] <= x[2]
                  /\ \A m \in x[1]..x[2] : path[m] # "/"
                  /\ x[1] = 1 \/ path[x[1] - 1] = "/"
                  /\ x[2] = Len(path) \/ path[x[2] + 1] = "/"}}

\* the directory rule as C13 states it
DirRuleExpected(r, path) ==
    \/ HasPrefix(path, r)
    \/ SubSeq(r, 1, Len(r) - 1) \in SegmentSet(path)

\* C13: under the single rule 'o/' an entry is excluded exactly when its path
\* starts with the rule or has 'o' as a segment, the last one included
C13_DirRuleMatchesDirItself ==
    (pc = "collect" /\ config.Exclude = <<DirRule>>) =>
        \A i \in DOMAIN remote :
            remote[i] \notin Range(files) <=> DirRuleExpected(DirRule, remote[i].Path)

\* the last segment of a path that does not end in a separator
LastSegment(path) ==
    LET cut == {m \in 1..Len(path) : path[m] = "/"}
        from == IF cut = {} THEN 1
                ELSE 1 + CHOOSE m \in cut : \A n \in cut : n <= m
    IN SubSeq(path, from, Len(path))

\* glob matching of a pattern of literals and at most one '*': the '*' stands
\* for any run of characters other than the separator
GlobExpected(pattern, name) ==
    LET stars == {j \in 1..Len(pattern) : pattern[j] = "*"}
    IN IF stars = {} THEN name = pattern
       ELSE LET j   == CHOOSE x \in stars : TRUE
                pre == SubSeq(pattern, 1, j - 1)
                suf == SubSeq(pattern, j + 1, Len(pattern))
            IN /\ Len(name) >= Len(pre) + Len(suf)
               /\ SubSeq(name, 1, Len(pre)) = pre
               /\ SubSeq(name, Len(name) - Len(suf) + 1, Len(name)) = suf
               /\ \A m \in (Len(pre) + 1)..(Len(name) - Len(suf)) : name[m] # "/"

GlobRules == {ExcludeRule, PathRule, StarRule, NameRule}

\* C14: under rules that are neither @file nor directory rules, an entry is
\* excluded exactly when some rule glob-matches its base name or its full
\* path, '*' not matching across a separator: '*1' excludes at any depth,
\* '/f1' excludes that path alone, '/*' only paths of one segment
C14_GlobOnBaseOrPath ==
    (pc = "collect" /\ Range(config.Exclude) \subseteq GlobRules) =>
        \A i \in DOMAIN remote :
            LET path == remote[i].Path IN
            /\ remote[i] \notin Range(files) <=>
                  \E k \in DOMAIN config.Exclude :
                      \/ GlobExpected(config.Exclude[k], LastSegment(path))
                      \/ GlobExpected(config.Exclude[k], path)
            /\ config.Exclude = <<PathRule>> =>
                  (remote[i] \notin Range(files) <=> path = PathRule)
            /\ config.Exclude = <<ExcludeRule>> =>
                  (remote[i] \notin Range(files) <=> path[Len(path)] = "1")

\* '/*' has excluded /f1 and kept /f/f1
C14_Witness ==
    /\ pc = "collect"
    /\ config.Exclude = <<StarRule>>
    /\ Len(remote) = 2
    /\ remote[1].Path = <<"/", "f", "1">>
    /\ remote[2].Path = <<"/", "f", "/", "f", "1">>
    /\ files = <<remote[2]>>

\* ------------------------------------------------ downloads and deletions
\* C15: Download is called only for a listed entry that is not a folder, that
\* no rule excludes and whose skip decision was false, and once; no folder
\* entry and no excluded path is ever downloaded
C15_DownloadOnlyPlanned ==
    /\ \A i \in DOMAIN wk :
          wk[i].downloads > 0 =>
              /\ wk[i].downloads = 1
              /\ files[i] \in Range(remote)
              /\ ~files[i].IsFolder
              /\ ~AnyRule(config.Exclude, files[i].Path)
              /\ wk[i].skip = "no"
    /\ \A j \in DOMAIN remote :
          (remote[j].IsFolder \/ AnyRule(config.Exclude, remote[j].Path)) =>
              ~\E i \in DOMAIN wk : files[i] = remote[j]

\* of an excluded file, a folder or file and a second file, only the last
\* entry was downloaded
C15_Witness ==
    /\ config.Exclude # <<>>
    /\ remote[1] = FileEntry(1, MaxSize, MaxTime)
    /\ AnyRule(config.Exclude, remote[1].Path)
    /\ pc = "done"
    /\ runErr = Nil
    /\ DOMAIN wk = {1}
    /\ files[1].Path = PathOf(2)
    /\ wk[1].downloads = 1

\* the local paths of the filtered listing
ExpectedKept == {LocalPath(e.Path) : e \in Range(KeptByOr(remote, config.Exclude))}

\* C16: after a successful run with deletion enabled every regular file whose
\* path is not the local path of an entry of the filtered listing is gone,
\* nothing else was removed, and DeletedFiles counts the files removed
C16_OrphansRemoved ==
    (pc = "done" /\ runErr = Nil /\ config.Delete) =>
        /\ \A p \in LocalPaths :
              (prev.fs0[p].exists /\ ~prev.fs0[p].isDir /\ p \notin ExpectedKept)
                  <=> p \in calls.removed
        /\ \A p \in calls.removed : ~fs[p].exists
        /\ \A p \in LocalPaths :
              (fs[p].exists /\ ~fs[p].isDir) => p \in ExpectedKept
        /\ stats.DeletedFiles = Cardinality(calls.removed)

\* the stray file and the local copy of an excluded file were both removed
C16_Witness ==
    /\ pc = "done"
    /\ runErr = Nil
    /\ config.Delete
    /\ config.Exclude # <<>>
    /\ calls.removed = {OrphanLocal, LocalPath(PathOf(1))}
    /\ stats.DeletedFiles = 2
    /\ stats.DownloadedFiles = 1

\* C17: no local path a download worker of the run has written is removed by
\* the run's orphan reconciliation
C17_NeverDownloadedAndDeleted ==
    /\ \A i \in DOMAIN wk : Overwrote(i) => LocalOf(i) \notin calls.removed
    /\ (\E i \in DOMAIN wk : wk[i].err # "none") => calls.removed = {}

\* a run that downloaded one file and removed another
C17_Witness ==
    /\ pc = "done"
    /\ runErr = Nil
    /\ \E i \in DOMAIN wk : Overwrote(i) /\ fs[LocalOf(i)].exists
    /\ OrphanLocal \in calls.removed

\* C18: without --delete no local file is removed and DeletedFiles stays 0
C18_NoDeleteWithoutFlag ==
    ~config.Delete =>
        /\ pc # "walk"
        /\ ~calls.deleteStarted
        /\ calls.removed = {}
        /\ stats.DeletedFiles = 0
        /\ \A p \in LocalPaths : prev.fs0[p].exists => fs[p].exists

\* a run without --delete has ended well and the stray file is still there
C18_Witness ==
    /\ ~config.Delete
    /\ pc = "done"
    /\ runErr = Nil
    /\ stats.DownloadedFiles > 0
    /\ fs[OrphanLocal].exists
    /\ OrphanLocal \notin ExpectedKept

\* C19: the directories of the backup directory are the same after the
\* reconciliation as before it
C19_DirectoriesKept ==
    \A p \in LocalPaths :
        /\ prev.fs0[p].isDir => fs[p] = prev.fs0[p]
        /\ fs[p].isDir => prev.fs0[p].isDir
        /\ p \in calls.removed => ~prev.fs0[p].isDir

\* the only file of a directory without a remote counterpart was removed and
\* the directory, now empty, is still there
C19_Witness ==
    /\ pc = "done"
    /\ runErr = Nil
    /\ NestedOrphan \in calls.removed
    /\ fs[OrphanDir] = LocalDir
    /\ OrphanDir \notin ExpectedKept
    /\ ~HasChildren(fs, OrphanDir)

\* ------------------------------------------------------------ formatBytes
\* position (from 0) of the highest non-zero digit: the k of the largest
\* unit^k <= n
TopIndex(n) ==
    LET nz == {j \in 1..Len(n) : n[j] # 0}
    IN IF nz = {} THEN 0 ELSE (CHOOSE j \in nz : \A m \in nz : m <= j) - 1

Abs(x) == IF x < 0 THEN -x ELSE x

\* C20: a count below 1024 is printed as '<n> B'; any other as n over the
\* largest 1024^k <= n, k in 1..6, to the nearest tenth, with the k-th of the
\* units K M G T P E and 'B'; 0, 512, 1024, 1536 and 1048576 print as
\* '0 B', '512 B', '1.0 KB', '1.5 KB' and '1.0 MB'
C20_FormatBytes ==
    (pc = "done" /\ printed # <<>>) =>
        LET n == stats.TotalBytes
            k == TopIndex(n)
        IN /\ k = 0 => printed = Decimal(n[1]) \o <<" ", "B">>
           /\ k > 0 =>
                 /\ k \in 1..6
                 /\ \E t \in (10 * n[k + 1])..(10 * n[k + 1] + 10) :
                       /\ printed = Decimal(t \div 10)
                                       \o <<".", Digits[(t % 10) + 1], " ",
                                            UnitLetters[k], "B">>
                       /\ Abs(t * unit - 10 * (n[k + 1] * unit + n[k]))
                             <= (unit \div 2) + 10
           /\ n = Uint64(0) => printed = <<"0", " ", "B">>
           /\ n = Uint64(512) => printed = <<"5", "1", "2", " ", "B">>
           /\ n = Uint64(1024) => printed = <<"1", ".", "0", " ", "K", "B">>
           /\ n = Uint64(1536) => printed = <<"1", ".", "5", " ", "K", "B">>
           /\ n = Uint64(1048576) => printed = <<"1", ".", "0", " ", "M", "B">>

\* the largest uint64 was printed with the last of the units
C20_Witness ==
    /\ pc = "done"
    /\ stats.TotalBytes = MaxUint64
    /\ printed = <<"1", "6", ".", "0", " ", "E", "B">>

\* the directory an absolute path names is the one p names from cwd
NamesFrom(abs, cwd, p) ==
    CleanElements(Elements(abs, <<>>), <<>>)
        = CleanElements(Elements(IF IsAbs(p) THEN p ELSE cwd \o <<"/">> \o p, <<>>), <<>>)

\* 'dropbox_backup_' and six fields of digits, four in the first and two in
\* the others, with '-' between them
IsDefaultName(el) ==
    /\ Len(el) = Len(DefaultPrefix) - 2 + 19
    /\ SubSeq(el, 1, Len(DefaultPrefix) - 2) = SubSeq(DefaultPrefix, 3, Len(DefaultPrefix))
    /\ \A k \in 1..19 :
          LET c == el[Len(DefaultPrefix) - 2 + k]
          IN IF k \in {5, 8, 11, 14, 17} THEN c = "-"
             ELSE \E d \in 1..10 : c = Digits[d]

\* C21: a loaded Config holds an absolute BackupDir that names the directory
\* of --backup-dir if given, else of DROPBOX_BACKUP_FOLDER if set, else
\* dropbox_backup_<yyyy-mm-dd-hh-mm-ss> in the working directory
C21_BackupDirPriority ==
    pc = "loaded" =>
        /\ IsAbs(config.BackupDir)
        /\ env.opts.BackupDir # <<>> =>
              NamesFrom(config.BackupDir, env.cwd, env.opts.BackupDir)
        /\ (env.opts.BackupDir = <<>> /\ env.DROPBOX_BACKUP_FOLDER # <<>>) =>
              NamesFrom(config.BackupDir, env.cwd, env.DROPBOX_BACKUP_FOLDER)
        /\ (env.opts.BackupDir = <<>> /\ env.DROPBOX_BACKUP_FOLDER = <<>>) =>
              LET els == Elements(config.BackupDir, <<>>)
              IN /\ IsDefaultName(els[Len(els)])
                 /\ SubSeq(els, 1, Len(els) - 1)
                       = Elements(IF env.cwd = <<"/">> THEN <<>> ELSE env.cwd, <<>>)

\* with both --backup-dir ./b and DROPBOX_BACKUP_FOLDER set, in /w, the
\* Config holds /w/b
C21_Witness ==
    /\ pc = "loaded"
    /\ env.opts.BackupDir = <<".", "/", "b">>
    /\ env.DROPBOX_BACKUP_FOLDER = <<"e">>
    /\ env.cwd = <<"/", "w">>
    /\ config.BackupDir = <<"/", "w", "/", "b">>

\* the validity the claim states: expiry more than the buffer away
ClaimedValid(tk) ==
    /\ tk # NilToken
    /\ tk.AccessToken # ""
    /\ tk.Expiry = 0 \/ tk.Expiry > ClockMin + TokenBuffer

\* validity with an expiry at the end of the buffer counted in
ValidAtBuffer(tk) ==
    /\ tk # NilToken
    /\ tk.AccessToken # ""
    /\ tk.Expiry = 0 \/ tk.Expiry >= ClockMin + TokenBuffer

\* Run went from the token check to the listing with the token it had
PassedUnrefreshed == pc' = "list" /\ token' = token

\* C22 as stated: Run goes on to list with the token it holds, without a
\* refresh, exactly if there is a token, its access token is not empty and
\* its expiry is zero or more than 5 minutes after the current time
C22_TokenValidIff ==
    [][(pc = "checkToken" /\ pc' # pc) => (ClaimedValid(token) <=> PassedUnrefreshed)]_vars

\* C22, amended: Run goes on to list with the token it holds, without a
\* refresh, exactly if there is a token, its access token is not empty and
\* its expiry is zero or not earlier than 5 minutes after the current time;
\* any other token is refreshed before the listing or ends Run
C22_TokenValidAtBuffer ==
    [][(pc = "checkToken" /\ pc' # pc) => (ValidAtBuffer(token) <=> PassedUnrefreshed)]_vars

\* a token expiring exactly 5 minutes from now has reached the listing
C22_Witness ==
    /\ pc = "plan"
    /\ calls.ListAll = 1
    /\ token # NilToken
    /\ token.AccessToken = "tok"
    /\ token.Expiry = ClockMin + TokenBuffer

\* C23: a code is exchanged for a token only for a callback whose state
\* parameter is the state StartOAuthFlow generated for this flow, whenever
\* the callback arrives while the server listens
C23_ExchangeOnlyForOwnState ==
    \A s \in ia.exchanged : s = ia.generated

\* C24: a download or a listing is reported as failed only after it has been
\* attempted as many times as RetryAttempts configures
C24_RetriedBeforeFailure ==
    /\ \A i \in DOMAIN wk : wk[i].err = "download" => wk[i].downloads >= RetryAttempts
    /\ runErr.stage \in {"list and refresh", "list after refresh"} =>
          calls.ListAll >= RetryAttempts

\* C25: once downloadFiles has returned, with or without an error, every
\* worker it spawned has terminated
C25_JoinBeforeReturn ==
    (pc \in {"walk", "log", "done"} /\ chanState # "none") =>
        \A i \in DOMAIN wk : wk[i].pc = "done"

\* worker i ended with the process before its skip check or, not skipped,
\* before its Download call
CutOff(i) ==
    /\ wk[i].pc = "killed"
    /\ wk[i].err = "none"
    /\ wk[i].skip = "none" \/ (wk[i].skip = "no" /\ wk[i].downloads = 0)

\* C26: when a download has failed and the caller has not cancelled the run,
\* no worker gives up on a cancelled context or is cut off before its skip
\* check or its download
C26_SiblingsUnaffected ==
    (runErr.stage = "download files" /\ ~calls.cancelled) =>
        \A i \in DOMAIN wk : wk[i].err # "canceled" /\ ~CutOff(i)

\* C27: a worker that had no slot when the caller cancelled the run context
\* never acquires one afterwards, so never starts its download
C27_NoStartAfterCancel ==
    calls.cancelled => \A i \in DOMAIN wk : ~wk[i].late

\* C28: from the start of deleteOrphanedFiles on, every download worker of
\* the run has terminated and the only change to a local path is its removal
C28_DeleteAfterDownloads ==
    [][calls'.deleteStarted =>
          /\ \A i \in DOMAIN wk' : wk'[i].pc = "done"
          /\ \A p \in LocalPaths : fs'[p] # fs[p] => fs'[p] = NoFile]_vars

\* deleteOrphanedFiles has removed a file after two workers had finished
C28_Witness ==
    /\ calls.deleteStarted
    /\ calls.removed # {}
    /\ Cardinality(DOMAIN wk) = 2
    /\ \E i \in DOMAIN wk : wk[i].downloads = 1

\* C29: a failed download phase ends Run at once: deleteOrphanedFiles is not
\* invoked, no local file disappears and no summary is printed; a failed
\* orphan reconciliation ends Run without a summary; no download is tried twice
C29_StageFailureFatal ==
    /\ runErr.stage = "download files" =>
          /\ pc = "done"
          /\ ~calls.deleteStarted
          /\ calls.removed = {}
          /\ \A p \in LocalPaths : prev.fs0[p].exists => fs[p].exists
          /\ printed = <<>>
    /\ runErr.stage = "delete orphaned files" =>
          /\ pc = "done"
          /\ printed = <<>>
    /\ \A i \in DOMAIN wk : wk[i].downloads <= 1

\* with deletion enabled a download failed: Run has returned and the stray
\* file is still there
C29_Witness ==
    /\ config.Delete
    /\ pc = "done"
    /\ runErr.stage = "download files"
    /\ runErr.cause = "download"
    /\ fs[OrphanLocal].exists

WalkFailed == runErr.stage = "delete orphaned files"

C31_WalkErrorStops ==
    WalkFailed =>
        /\ pc = "done"
        /\ Len(walk) > 0
        /\ stats.DeletedFiles = Cardinality(calls.removed)
        /\ \A p \in calls.removed : fs[p] = NoFile
        /\ \A p \in Range(walk) : fs[p].exists /\ p \notin calls.removed
        /\ \A p \in LocalPaths :
              (fs[p].exists /\ ~fs[p].isDir /\ p \notin dropboxFileMap)
                  => p \in Range(walk)

C31_Witness ==
    /\ WalkFailed
    /\ calls.removed # {}
    /\ \E p \in Range(Tail(walk)) : ~fs[p].isDir /\ p \notin dropboxFileMap

\* C32: a failure to set the local modification time after the content was
\* written is not a download failure: the worker reports no error and goes on
\* to count the file in DownloadedFiles and its bytes in TotalBytes (exactly
\* once and in full when it is the only worker), and nothing of it reaches the
\* error channel or the result of Run.
ChtimesFailed(i) == wk[i].chtimes = "failed"

C32_ChtimesNotFatal ==
    \A i \in DOMAIN wk :
        ChtimesFailed(i) =>
            /\ wk[i].err = "none"
            /\ wk[i].pc \in {"dlRead", "dlWrite", "bytesRead", "bytesWrite", "exit",
                             "done", "killed"}
            /\ "chtimes" \notin Range(errChan)
            /\ runErr.cause # "chtimes"
            /\ wk[i].pc = "done" => stats.DownloadedFiles >= 1
            /\ (wk[i].pc = "done" /\ DOMAIN wk = {i}) =>
                  /\ stats.DownloadedFiles = 1
                  /\ stats.TotalBytes = Uint64(files[i].Size)
                  /\ runErr.stage # "download files"

C32_Witness ==
    /\ runErr = Nil
    /\ \E i \in DOMAIN wk :
          /\ ChtimesFailed(i)
          /\ DOMAIN wk = {i}
          /\ files[i].Size > 0
          /\ fs[LocalOf(i)].mtime # files[i].ModTime
          /\ stats.DownloadedFiles = 1

\* C33: within one run each local path is written by at most one worker: no
\* two workers of downloadFiles create or write the same local path, whatever
\* the listing, entries of unknown metadata type included.
WroteLocal(i) ==
    \/ wk[i].pc \in {"copy", "chtimes", "dlRead", "dlWrite", "bytesRead", "bytesWrite"}
    \/ wk[i].err = "copy"
    \/ wk[i].chtimes # "none"
    \/ (wk[i].pc \in {"exit", "done"} /\ wk[i].err = "none" /\ wk[i].skip = "no")

C33_OneWriterPerPath ==
    \A i, j \in DOMAIN wk :
        (i # j /\ WroteLocal(i) /\ WroteLocal(j)) => LocalOf(i) # LocalOf(j)

\* C34: ListAll is all-or-nothing. What it returns to Run is either the
\* complete flattened listing, every entry of every result of every folder
\* reached, with a nil error, or a nil listing with an error when any call for
\* a folder or a continuation failed; a partial listing is never returned.
ListAllReturned == pc \in {"plan", "refresh"}

AccountEntries(A) == UNION {UNION {Range(A[p][k]) : k \in DOMAIN A[p]} : p \in DOMAIN A}

C34_ListAllOrNothing ==
    /\ ls.err => ls.stack = <<>> /\ pc \in {"listing", "refresh"}
    /\ ListAllReturned =>
          \/ /\ pc = "plan"
             /\ ~ls.err /\ ~calls.listFailed
             /\ files = remote
             /\ Range(files) = AccountEntries(ls.account)
             /\ Len(files) = Cardinality(AccountEntries(ls.account))
          \/ /\ pc = "refresh"
             /\ ls.err /\ calls.listFailed
             /\ files = <<>>

C34_Witness ==
    /\ pc = "refresh"
    /\ files = <<>>
    /\ Len(ls.allFiles) >= 3
    /\ \E i \in DOMAIN ls.allFiles : ls.allFiles[i].Path = SubDirPath
    /\ Len(ls.account[Root]) = 2

\* C35: no worker ever blocks when it reports its error. The error channel
\* holds at least as many values as there are workers and each worker sends at
\* most one, so a worker about to send always finds room, also after
\* downloadFiles has returned on an earlier error and nobody receives.
AboutToSend == {i \in DOMAIN wk : wk[i].pc = "report" \/ (wk[i].pc = "acquire" /\ ctxDone)}

HasSent == {i \in DOMAIN wk : wk[i].err # "none" /\ wk[i].pc \in {"exit", "done", "killed"}}

C35_ReportNeverBlocks ==
    chanState # "none" =>
        /\ Cardinality(DOMAIN wk) <= ErrChanCap(files)
        /\ Len(errChan) <= Cardinality(HasSent)
        /\ Len(errChan) + Cardinality(AboutToSend) <= ErrChanCap(files)
        /\ AboutToSend # {} => CanSend

C35_Witness ==
    /\ pc = "done"
    /\ runErr.stage = "download files"
    /\ Len(errChan) >= 1
    /\ ~calls.exited
    /\ Cardinality(HasSent) = 2
    /\ \A i \in DOMAIN wk : wk[i].pc = "done"

\* C36: semaphore slots are balanced. While the goroutines run, the semaphore
\* holds exactly one value per worker that acquired a slot and has not finished
\* yet, whether its downloadFile succeeds, skips or fails; a worker that gave
\* up on cancellation holds none; once every worker has terminated the
\* semaphore is empty.
GaveUp == {i \in DOMAIN wk : wk[i].err = "canceled"}

C36_SemaphoreBalanced ==
    ~calls.exited =>
        /\ sem = InFlight
        /\ \A i \in GaveUp : wk[i].pc = "done" /\ wk[i].skip = "none"
        /\ (chanState # "none" /\ \A i \in DOMAIN wk : wk[i].pc = "done") => sem = 0

C36_Witness ==
    /\ ~calls.exited
    /\ sem = 0
    /\ Cardinality(DOMAIN wk) = 2
    /\ \A i \in DOMAIN wk : wk[i].pc = "done"
    /\ GaveUp # {}
    /\ \E i \in DOMAIN wk : wk[i].err \notin {"none", "canceled"}

DownloadFilesReturned == chanState # "none" /\ pc # "collect"

C37_PoolZero ==
    config.MaxConcurrency = 0 =>
        /\ \A i \in DOMAIN wk : ~wk[i].acquired
        /\ DownloadFilesReturned => calls.cancelled

\* the same over whole behaviours
C37_EveryWorkerAcquires ==
    (config.MaxConcurrency >= 1 /\ []~calls.cancelled) =>
        \A i \in 1..MaxFiles : [](i \in DOMAIN wk => <>(i \in DOMAIN wk /\ wk[i].acquired))

C37_DownloadFilesReturns ==
    (config.MaxConcurrency >= 1 /\ []~calls.cancelled) =>
        [](pc = "collect" => <>(pc # "collect"))

\* C38: when the remote Download call for a file fails, the local file at that
\* path, if there is one, keeps its content, size and modification time (no
\* other worker writing the same path), and that worker changes none of
\* DownloadedFiles, SkippedFiles and TotalBytes: the local file is created or
\* truncated only after the remote call has succeeded.
DownloadFailed(i) == wk[i].err = "download"

SamePath(i) == {j \in DOMAIN wk : LocalOf(j) = LocalOf(i)}

C38_FailedDownloadNoEffect ==
    \A i \in DOMAIN wk :
        DownloadFailed(i) =>
            /\ wk[i].pc \in {"report", "exit", "done", "killed"}
            /\ wk[i].written = 0 /\ wk[i].chtimes = "none" /\ wk[i].skip = "no"
            /\ SamePath(i) = {i} => fs[LocalOf(i)] = prev.fs0[LocalOf(i)]
            /\ DOMAIN wk = {i} =>
                  /\ stats.DownloadedFiles = 0
                  /\ stats.SkippedFiles = 0
                  /\ stats.TotalBytes = Uint64(0)

C38_Witness ==
    \E i \in DOMAIN wk :
        /\ DownloadFailed(i)
        /\ wk[i].pc = "done"
        /\ fs[LocalOf(i)].exists
        /\ fs[LocalOf(i)].size # files[i].Size
        /\ runErr = Failed("download files", "download")

\* C39: when a download fails while copying, the truncated or partial local
\* file stays on disk with the time of the failed write as its modification
\* time and is not counted in DownloadedFiles; in the following run, with the
\* same remote entry whose modification time is set and earlier than that
\* write, the skip decision finds the local file newer and skips it: the
\* partial file is not downloaded again.
CopyFailed(i) == wk[i].err = "copy"

Partial(f, remoteFile) ==
    f.exists /\ ~f.isDir /\ (f.size < remoteFile.Size \/ f.size = 0)

\* the run before this one ended with the copy of entry i failing
AfterCopyFailed(i) ==
    /\ prev.ran
    /\ i \in DOMAIN prev.err
    /\ prev.err[i] = "copy"
    /\ i \in DOMAIN wk
    /\ files[i] = remote[i]

C39_PartialFileSkippedNextRun ==
    \A i \in DOMAIN wk :
        /\ (CopyFailed(i) /\ SamePath(i) = {i}) =>
              /\ wk[i].pc \in {"report", "exit", "done", "killed"}
              /\ Partial(fs[LocalOf(i)], files[i])
              /\ fs[LocalOf(i)].mtime = now
              /\ DOMAIN wk = {i} =>
                    stats.DownloadedFiles = 0 /\ stats.TotalBytes = Uint64(0)
        /\ AfterCopyFailed(i) =>
              /\ Partial(prev.fs0[LocalOf(i)], files[i])
              /\ ( /\ files[i].ModTime # 0
                   /\ files[i].ModTime < prev.fs0[LocalOf(i)].mtime
                   /\ wk[i].skip # "none" ) =>
                     /\ wk[i].skip = "yes"
                     /\ wk[i].downloads = 0
                     /\ fs[LocalOf(i)] = prev.fs0[LocalOf(i)]

C39_Witness ==
    /\ AfterCopyFailed(1)
    /\ files[1].Size > 0
    /\ files[1].ModTime # 0
    /\ wk[1].skip = "yes"
    /\ wk[1].pc = "done"
    /\ fs[LocalOf(1)].size < files[1].Size
    /\ stats.SkippedFiles = 1
    /\ runErr = Nil

====
